---- MODULE Spec2Model ----
(***************************************************************************)
(* Model of ftth-rtnl: the singleton RtnlClient, its worker thread, the    *)
(* five subsystem server loops (address, link, neighbor, route,            *)
(* virtual_interface) and the synchronous client facades.                  *)
(*                                                                         *)
(* An action of a server loop is the code between two await points: from   *)
(* server.accept().await to the first wire await (or back to accept), and  *)
(* from one kernel reply to the next await.  The kernel and the netlink    *)
(* transport are external: every reply they can give is a nondeterministic *)
(* input.  The request/response channel (ftth_common::channel) is external *)
(* too: a FIFO of requests, a single-use responder per accepted request,   *)
(* and an error at the client when the server end is gone.                 *)
(***************************************************************************)
EXTENDS Integers, Sequences, FiniteSets, TLC

\* ---------------------------------------------------------------- bounds
NumThreads == 2
MaxCalls == 2
MaxReplies == 2
LookupCalls == 1
MaxWeight == 300
BigWeight == 1000000
MaxHops == 2
AddrBits == 1

Threads == 1..NumThreads

Subsys == {"address", "link", "neighbor", "route", "virtual_interface"}

\* Interface indices a caller may pass: 0 is "unspecified", 1 a real index.
IfIds == {0, 1}

\* ------------------------------------------------------------- requests
\* RtnlLinkRequest variants that carry an if_id.
LinkIndexKinds ==
    {"InterfaceGet", "MacAddrGet", "MtuGet", "MacAddrSet", "InterfaceSetAdmin",
     "InterfaceSetPromisc", "InterfaceSetArp", "InterfaceSetMtu",
     "InterfaceRename", "InterfaceSetAllMulticast"}

Req(sub, kind, if_id, x) == [sub |-> sub, kind |-> kind, if_id |-> if_id, x |-> x]

\* InterfaceSetAllMulticast for the interfaces up to MaxIfIndex.
MaxIfIndex == 3
AllMulticastRequests ==
    {Req("link", "InterfaceSetAllMulticast", i, x) : i \in 0..MaxIfIndex, x \in {"true", "false"}}

\* The link requests that carry a flag (up, enable): x is "true" or "false".
LinkFlagKinds ==
    {"InterfaceSetAdmin", "InterfaceSetPromisc", "InterfaceSetArp", "InterfaceSetAllMulticast"}

RtnlLinkRequest ==
    {Req("link", k, i, "") : k \in LinkIndexKinds \ LinkFlagKinds, i \in IfIds}
        \cup {Req("link", k, i, x) : k \in LinkFlagKinds, i \in IfIds, x \in {"true", "false"}}
        \cup {Req("link", "InterfaceGetByName", 0, "n"), Req("link", "InterfaceList", 0, "")}

RtnlAddressRequest ==
    {Req("address", k, i, "") :
        k \in {"Ipv4AddrsGet", "Ipv6AddrsGet", "Ipv4AddrSet", "Ipv6AddrSet",
               "Ipv4AddrDel", "Ipv6AddrDel"},
        i \in IfIds}

\* if_id -1 stands for the absent interface filter of List and Get.
RtnlNeighborRequest ==
    {Req("neighbor", k, i, "") : k \in {"Add", "Change", "Delete"}, i \in IfIds}
        \cup {Req("neighbor", k, i, "") : k \in {"List", "Get"}, i \in {-1, 1}}

\* Addresses are AddrBits wide (32 for Ipv4Addr, 128 for Ipv6Addr); a net
\* (ipnet::Ipv4Net, Ipv6Net) is an address, host bits included, and a prefix
\* length.
Addrs == 0..(2^AddrBits - 1)
Net(addr, prefix_len) == [addr |-> addr, prefix_len |-> prefix_len]
Nets == {Net(a, l) : a \in Addrs, l \in 0..AddrBits}

\* The route gets carry their target: a destination address (the lookup is
\* for its full length), or a prefix.
RouteGetReq(kind, dst, plen) ==
    [sub |-> "route", kind |-> kind, if_id |-> 0, x |-> "", dst |-> dst, plen |-> plen]

RtnlRouteRequest ==
    {Req("route", k, 0, "") :
        k \in {"Ipv4RouteList", "Ipv6RouteList", "Ipv4RouteAdd", "Ipv4RouteReplace",
               "Ipv6RouteAdd", "Ipv6RouteReplace", "Ipv4RouteDel", "Ipv6RouteDel"}}
        \cup {RouteGetReq(k, a, AddrBits) : k \in {"Ipv4RouteGet", "Ipv6RouteGet"}, a \in Addrs}
        \cup {RouteGetReq(k, n.addr, n.prefix_len) :
                 k \in {"Ipv4RouteGetByPrefix", "Ipv6RouteGetByPrefix"}, n \in Nets}

\* x of Create and Configure: the VirtualInterfaceKind and, for Vlan, which of
\* base_ifindex and vlan_id the VlanConfig holds.  x of Delete: the variant.
RtnlVirtualInterfaceRequest ==
    {Req("virtual_interface", "Create", 0, x) :
        x \in {"Gre", "Vlan", "VlanNoBase", "VlanNoId", "VlanNoBaseNoId"}}
      \cup {Req("virtual_interface", "Configure", i, "Gre") : i \in IfIds}
      \cup {Req("virtual_interface", "Delete", i, "ByIndex") : i \in IfIds}
      \cup {Req("virtual_interface", "Delete", 0, "ByName"),
            Req("virtual_interface", "GetIndexByName", 0, "n")}

Requests(sub) ==
    CASE sub = "link" -> RtnlLinkRequest
      [] sub = "address" -> RtnlAddressRequest
      [] sub = "neighbor" -> RtnlNeighborRequest
      [] sub = "route" -> RtnlRouteRequest
      [] sub = "virtual_interface" -> RtnlVirtualInterfaceRequest

\* A route request without a target, or with the target address 0 at full
\* length.
RouteTargetIsZero(r) ==
    r.kind \in {"Ipv4RouteList", "Ipv6RouteList"} \/ (r.dst = 0 /\ r.plen = AddrBits)

\* The get and list requests.
IsRead(req) ==
    \/ req.sub = "link"
          /\ req.kind \in {"InterfaceGet", "MacAddrGet", "MtuGet", "InterfaceGetByName",
                            "InterfaceList"}
    \/ req.sub = "address" /\ req.kind \in {"Ipv4AddrsGet", "Ipv6AddrsGet"}
    \/ req.sub = "neighbor" /\ req.kind \in {"List", "Get"}
    \/ req.sub = "route"
          /\ req.kind \in {"Ipv4RouteList", "Ipv6RouteList", "Ipv4RouteGet", "Ipv6RouteGet",
                            "Ipv4RouteGetByPrefix", "Ipv6RouteGetByPrefix"}
    \/ req.sub = "virtual_interface" /\ req.kind = "GetIndexByName"

\* The requests of two callers of which one deletes a virtual interface by
\* name: the requests of the virtual_interface loop that resolve a name, and
\* link requests that rename an interface and look a name up.
RaceRequests(sub) ==
    CASE sub = "virtual_interface" ->
            {Req("virtual_interface", "Delete", 0, "ByName"),
             Req("virtual_interface", "GetIndexByName", 0, "n")}
      [] sub = "link" ->
            {Req("link", "InterfaceRename", 1, ""), Req("link", "InterfaceGetByName", 0, "n")}
      [] OTHER -> {}

\* The requests two concurrent callers choose from: for every loop one request
\* per shape of arm (early return, one execute().await, a reply stream, a
\* reply stream followed by an execute().await).
SampleRequests(sub) ==
    CASE sub = "link" -> {Req("link", "MacAddrGet", 1, ""), Req("link", "InterfaceGet", 0, "")}
      [] sub = "address" -> {Req("address", "Ipv4AddrSet", 1, "")}
      [] sub = "neighbor" -> {Req("neighbor", "Add", 1, "")}
      [] sub = "route" -> {RouteGetReq("Ipv4RouteGet", 0, AddrBits)}
      [] sub = "virtual_interface" ->
            {Req("virtual_interface", "Delete", 0, "ByName"),
             Req("virtual_interface", "Create", 0, "VlanNoId")}

\* ------------------------------------------------------------ responses
\* One shape for the five response enums: the variant and its payload.
Resp(v, data) == [v |-> v, data |-> data]
Success == Resp("Success", <<>>)
Failed == Resp("Failed", <<>>)
NotFound == Resp("NotFound", <<>>)
NotImplemented == Resp("NotImplemented", <<>>)

\* -------------------------------------------------------- kernel replies
\* What an awaited wire operation can yield.  execute().await of a request
\* without a reply stream: Ok(()) or an error.  try_next().await of a reply
\* stream: Ok(Some(msg)), Ok(None) or an error.  An error is a
\* rtnetlink::Error::NetlinkError whose to_io().kind() is one of the first
\* four kinds, or any other rtnetlink::Error ("Transport").
ErrKinds == {"NotFound", "AlreadyExists", "AddrNotAvailable", "OtherErrno", "Transport"}
ErrReplies == {[t |-> "err", kind |-> k] : k \in ErrKinds}
OkReply == [t |-> "ok"]
EndReply == [t |-> "end"]

\* A link message: header.index, the IfName attribute, the length class of the
\* Address attribute (absent, shorter than six bytes, six bytes or more) and
\* the Mtu attribute.  Each request is offered the messages that differ in
\* the fields its handler reads.
LinkMsg(index, name, addr, mtu) ==
    [t |-> "msg", index |-> index, name |-> name, addr |-> addr, mtu |-> mtu]

LinkMsgs(req) ==
    CASE req.kind = "InterfaceGet" ->
            {LinkMsg(req.if_id, n, "none", 0) : n \in {"none", "eth0"}}
      [] req.kind \in {"InterfaceGetByName", "Delete", "GetIndexByName"} ->
            {LinkMsg(i, "n", "none", 0) : i \in IfIds}
      [] req.kind = "MacAddrGet" ->
            {LinkMsg(req.if_id, "eth0", a, 0) : a \in {"none", "short", "full"}}
      [] req.kind = "MtuGet" ->
            {LinkMsg(req.if_id, "eth0", "none", m) : m \in {0, 1500}}
      [] req.kind = "InterfaceList" ->
            {LinkMsg(i, n, "none", 0) : i \in IfIds, n \in {"none", "eth0"}}
      [] OTHER -> {}

\* An address message: header.family and the family of its Address attribute
\* (0 when the attribute is absent).
AddrMsgs == {[t |-> "msg", family |-> f, addr |-> a] : f \in {4, 6}, a \in {0, 4, 6}}

\* A neighbour message: header.ifindex, header.state, header.flags and whether
\* it carries the destination that a Get asks for ("D"), another IP address
\* ("E"), an address that is neither v4 nor v6 ("Other") or none.
NeighMsg(ifindex, dst, state, flags) ==
    [t |-> "msg", ifindex |-> ifindex, dst |-> dst, state |-> state, flags |-> flags]
NeighMsgsAll ==
    {NeighMsg(i, d, st, fl) :
        i \in {1, 2}, d \in {"D", "E", "Other", "none"},
        st \in {"None", "Reachable"}, fl \in {{}, {"Router"}}}
NeighMsgs == {m \in NeighMsgsAll : m.dst # "Other" /\ m.state = "Reachable" /\ m.flags # {}}

\* A route message: header.address_family, header.kind,
\* header.destination_prefix_length (one value is longer than an address) and
\* the Destination attribute (-1 when absent).
RouteMsg(family, kind, dst, plen) ==
    [t |-> "msg", family |-> family, kind |-> kind, dst |-> dst, plen |-> plen]
RouteMsgsAll ==
    {RouteMsg(f, k, d, l) :
        f \in {4, 6}, k \in {"Unicast", "Local", "Broadcast"},
        d \in {-1} \cup Addrs, l \in 0..(AddrBits + 1)}

\* The messages of either family and every kind for the request's target
\* itself and for the default route.
RouteMsgs(req) ==
    {m \in RouteMsgsAll :
        \/ m.dst = -1 /\ m.plen = 0
        \/ IF req.kind \in {"Ipv4RouteList", "Ipv6RouteList"}
           THEN m.dst = 0 /\ m.plen = AddrBits
           ELSE m.dst = req.dst /\ m.plen = req.plen}

StreamMsgs(req) ==
    CASE req.sub \in {"link", "virtual_interface"} -> LinkMsgs(req)
      [] req.sub = "address" -> AddrMsgs
      [] req.sub = "neighbor" -> NeighMsgs
      [] req.sub = "route" -> RouteMsgs(req)

\* Two messages for each read, one its handler takes and one it passes over
\* (for a link read, the messages above).
ReadMsgs(req) ==
    CASE req.sub \in {"link", "virtual_interface"} -> LinkMsgs(req)
      [] req.sub = "address" -> {m \in AddrMsgs : m.family = 4 /\ m.addr \in {0, 4}}
      [] req.sub = "neighbor" -> {m \in NeighMsgs : m.ifindex = 1 /\ m.dst \in {"D", "E"}}
      [] req.sub = "route" ->
            {m \in RouteMsgs(req) :
                m.family = 4 /\ m.kind \in {"Unicast", "Local"} /\ m.dst # -1}

\* ------------------------------------------------------ handler results
\* What a handler does between two awaits: the responses it sends through
\* respond(), the wire operations it issues, where the loop waits next
\* ("accept", "exec" for an execute().await, "stream" for a try_next().await),
\* the accumulator it carries on, and whether it panicked.
Step(resp, wire, next, acc) ==
    [resp |-> resp, wire |-> wire, next |-> next, acc |-> acc, panic |-> FALSE]
Panic == [resp |-> <<>>, wire |-> <<>>, next |-> "accept", acc |-> <<>>, panic |-> TRUE]
Wire(op, index) == [op |-> op, index |-> index]
\* A wire operation whose message is kept: a route lookup, a create.
WireMsg(op, msg) == [op |-> op, index |-> 0, msg |-> msg]

\* ------------------------------------------------------------ link loop
\* map_link_result: Ok to Success, a netlink error of kind NotFound to
\* NotFound, every other error to Failed.
map_link_result(reply) ==
    CASE reply.t = "ok" -> Success
      [] reply.t = "err" /\ reply.kind = "NotFound" -> NotFound
      [] OTHER -> Failed

\* (A handler whose MtuGet arm lacks the index check.)
LinkIndexIsZeroButMtu(req) ==
    req.kind \in (LinkIndexKinds \ {"MtuGet"}) /\ req.if_id = 0

\* The index-0 test that opens every index-based arm of link::run_server.
LinkIndexIsZero(req) == req.kind \in LinkIndexKinds /\ req.if_id = 0

\* (An all-multicast message that sets the flag whatever enable says.)
set_all_multicast_message_on(if_id, enable) ==
    [index |-> if_id, flags |-> {"Allmulti"}, change_mask |-> {"Allmulti"}]

\* The InterfaceSetAllMulticast arm's message: the builder's message for the
\* index, with empty flags and change mask, then the Allmulti bit set in or
\* removed from the flags and set in the change mask.
set_all_multicast_message(if_id, enable) ==
    LET message == [index |-> if_id, flags |-> {}, change_mask |-> {}] IN
    [index |-> message.index,
     flags |-> IF enable THEN message.flags \cup {"Allmulti"}
               ELSE message.flags \ {"Allmulti"},
     change_mask |-> message.change_mask \cup {"Allmulti"}]

\* link::run_server from accept() to the first await of the arm.
LinkStart(req) ==
    CASE LinkIndexIsZero(req) -> Step(<<NotFound>>, <<>>, "accept", <<>>)
      [] req.kind = "InterfaceSetAllMulticast" ->
            Step(<<>>, <<[op |-> "set", index |-> req.if_id,
                          msg |-> set_all_multicast_message(req.if_id, req.x = "true")]>>,
                 "exec", <<>>)
      [] req.kind \in {"InterfaceGet", "MacAddrGet", "MtuGet"} ->
            Step(<<>>, <<Wire("get.match_index", req.if_id)>>, "stream", <<>>)
      [] req.kind = "InterfaceGetByName" ->
            Step(<<>>, <<Wire("get.match_name", 0)>>, "stream", <<>>)
      [] req.kind = "InterfaceList" ->
            Step(<<>>, <<Wire("get", 0)>>, "stream", <<>>)
      [] req.kind \in LinkIndexKinds ->
            Step(<<>>, <<Wire("set", req.if_id)>>, "exec", <<>>)
      [] OTHER -> Step(<<NotImplemented>>, <<>>, "accept", <<>>)

\* The MacAddrGet arm on a message that carries an Address attribute:
\* addr[0..6] panics on a slice shorter than six bytes, before try_into and
\* unwrap_or are reached; on six bytes or more try_into succeeds.
MacAddrFromAttribute(addr) ==
    IF addr = "short" THEN Panic
    ELSE Step(<<Resp("MacAddr", <<"first6">>)>>, <<>>, "accept", <<>>)

\* (An enumeration that keeps the entries with index 0.)
SkipsLinkUnnamed(reply) == reply.name = "none"

\* `if if_index == 0 || if_name.is_none() { continue; }` of InterfaceList.
SkipsLink(reply) == reply.index = 0 \/ reply.name = "none"

\* link::run_server on one item of a reply stream.  Every arm loops with
\* `while let Ok(Some(response))`, so the stream's end and a stream error both
\* leave the loop and fall through to the respond() after it.
LinkOnStream(req, acc, reply) ==
    CASE req.kind = "InterfaceList" ->
            IF reply.t = "msg"
            THEN IF SkipsLink(reply)
                 THEN Step(<<>>, <<>>, "stream", acc)
                 ELSE Step(<<>>, <<>>, "stream", Append(acc, <<reply.index, reply.name>>))
            ELSE Step(<<Resp("InterfaceList", acc)>>, <<>>, "accept", <<>>)
      [] reply.t # "msg" -> Step(<<NotFound>>, <<>>, "accept", <<>>)
      [] req.kind = "InterfaceGet" ->
            IF reply.name # "none"
            THEN Step(<<Resp("Interface", <<req.if_id, reply.name>>)>>, <<>>, "accept", <<>>)
            ELSE Step(<<>>, <<>>, "stream", acc)
      [] req.kind = "InterfaceGetByName" ->
            IF reply.index = 0
            THEN Step(<<>>, <<>>, "stream", acc)
            ELSE Step(<<Resp("Interface", <<reply.index, req.x>>)>>, <<>>, "accept", <<>>)
      [] req.kind = "MacAddrGet" ->
            IF reply.addr = "none"
            THEN Step(<<>>, <<>>, "stream", acc)
            ELSE MacAddrFromAttribute(reply.addr)
      [] req.kind = "MtuGet" ->
            IF reply.mtu # 0
            THEN Step(<<Resp("Mtu", <<reply.mtu>>)>>, <<>>, "accept", <<>>)
            ELSE Step(<<>>, <<>>, "stream", acc)

LinkOnReply(req, phase, acc, reply) ==
    IF phase = "stream"
    THEN LinkOnStream(req, acc, reply)
    ELSE Step(<<map_link_result(reply)>>, <<>>, "accept", <<>>)

\* ------------------------------------------------- virtual_interface loop
\* The VlanConfig behind x: base_ifindex and vlan_id, -1 for None.
IsVlan(x) == x \in {"Vlan", "VlanNoBase", "VlanNoId", "VlanNoBaseNoId"}
base_ifindex(x) == IF x \in {"Vlan", "VlanNoId"} THEN 1 ELSE -1
vlan_id(x) == IF x \in {"Vlan", "VlanNoBase"} THEN 100 ELSE -1

\* (A validation that lets a Vlan without an id through.)
validate_create_kind_base_only(x) ==
    IF IsVlan(x) /\ base_ifindex(x) = -1
    THEN "VLAN creation requires a parent interface (--dev)"
    ELSE ""

\* validate_create_kind: a Vlan needs base_ifindex and vlan_id; "" is Ok(()),
\* any other value the text of the io::Error.
validate_create_kind(x) ==
    CASE IsVlan(x) /\ base_ifindex(x) = -1 -> "VLAN creation requires a parent interface (--dev)"
      [] IsVlan(x) /\ vlan_id(x) = -1 -> "VLAN creation requires --vlan-id"
      [] OTHER -> ""

virtual_interface_kind_to_info_kind(x) == IF IsVlan(x) THEN "Vlan" ELSE "GreTun"

\* virtual_interface_link: base_ifindex of a Vlan; the link of the Gre
\* configuration, which is None here.
virtual_interface_link(x) == IF IsVlan(x) THEN base_ifindex(x) ELSE -1

\* build_info_data: for a Vlan one InfoVlan::Id when vlan_id is Some; for a
\* Gre the attributes of gre_nlas, as one opaque item.
build_info_data(x) ==
    IF IsVlan(x)
    THEN [data |-> "Vlan",
          infos |-> IF vlan_id(x) # -1 THEN <<[a |-> "Id", v |-> vlan_id(x)]>> ELSE <<>>]
    ELSE [data |-> "GreTun", infos |-> <<[a |-> "Other", v |-> 0]>>]

\* build_create_message: Err with the validation's text, or the message with
\* its info kind, its info data and, when the kind has one, its link (-1: no
\* link attribute).  Name and admin_up are left out.
build_create_message(x) ==
    IF validate_create_kind(x) # ""
    THEN [ok |-> FALSE, err |-> validate_create_kind(x), msg |-> <<>>]
    ELSE [ok |-> TRUE, err |-> "",
          msg |-> <<[info_kind |-> virtual_interface_kind_to_info_kind(x),
                     info_data |-> build_info_data(x),
                     link |-> virtual_interface_link(x)]>>]

\* netlink_error_to_response and the transport arm beside it.
netlink_error_to_response(reply) ==
    IF reply.kind = "NotFound" THEN NotFound ELSE Failed

\* The `match result` of the Delete arm: the error of del() is first turned
\* into an io::Error (to_io() for a netlink error, io::Error::other for any
\* other), then only the kind NotFound is answered NotFound.
VIDeleteResult(reply) ==
    CASE reply.t = "ok" -> Success
      [] reply.t = "err" /\ reply.kind = "NotFound" -> NotFound
      [] OTHER -> Failed

VIStart(req) ==
    CASE req.kind = "Create" ->
            IF build_create_message(req.x).ok
            THEN Step(<<>>, <<WireMsg("add", build_create_message(req.x).msg[1])>>, "exec", <<>>)
            ELSE Step(<<Failed>>, <<>>, "accept", <<>>)
      [] req.kind = "Configure" ->
            Step(<<>>, <<Wire("set", req.if_id)>>, "exec", <<>>)
      [] req.kind = "Delete" /\ req.x = "ByIndex" ->
            Step(<<>>, <<Wire("del", req.if_id)>>, "exec", <<>>)
      [] req.kind \in {"Delete", "GetIndexByName"} ->
            Step(<<>>, <<Wire("get.match_name", 0)>>, "stream", <<>>)

\* (A resolution that takes the first message whatever its index.)
resolve_index_by_name_any(reply) ==
    CASE reply.t = "msg" -> <<"Some", reply.index>>
      [] OTHER -> <<"None", 0>>

\* (A resolution that returns the stream's error to its caller.)
resolve_index_by_name_strict(reply) ==
    CASE reply.t = "msg" /\ reply.index # 0 -> <<"Some", reply.index>>
      [] reply.t = "msg" -> <<"Pending", 0>>
      [] reply.t = "err" -> <<"Err", 0>>
      [] OTHER -> <<"None", 0>>

\* resolve_index_by_name on one item of the reply stream: the first message
\* with a non-zero index, or None at the stream's end or on a stream error.
resolve_index_by_name(reply) ==
    CASE reply.t = "msg" /\ reply.index # 0 -> <<"Some", reply.index>>
      [] reply.t = "msg" -> <<"Pending", 0>>
      [] OTHER -> <<"None", 0>>

VIOnReply(req, phase, acc, reply) ==
    CASE phase = "stream" ->
            LET r == resolve_index_by_name(reply) IN
            CASE r[1] = "Pending" -> Step(<<>>, <<>>, "stream", acc)
              [] r[1] = "Err" -> Step(<<Failed>>, <<>>, "accept", <<>>)
              [] r[1] = "None" -> Step(<<NotFound>>, <<>>, "accept", <<>>)
              [] req.kind = "Delete" -> Step(<<>>, <<Wire("del", r[2])>>, "exec", <<>>)
              [] OTHER -> Step(<<Resp("Index", <<r[2]>>)>>, <<>>, "accept", <<>>)
      [] req.kind = "Delete" -> Step(<<VIDeleteResult(reply)>>, <<>>, "accept", <<>>)
      [] reply.t = "ok" -> Step(<<Success>>, <<>>, "accept", <<>>)
      [] OTHER -> Step(<<netlink_error_to_response(reply)>>, <<>>, "accept", <<>>)

\* --------------------------------------------------------- address loop
AddrFamilyOf(req) == IF req.kind \in {"Ipv4AddrsGet", "Ipv4AddrSet", "Ipv4AddrDel"} THEN 4 ELSE 6

\* (A set arm without the AlreadyExists guard.)
AddrSetResultStrict(reply) ==
    IF reply.t = "ok" THEN Success ELSE Failed

\* The `match result` of Ipv4AddrSet and Ipv6AddrSet.
AddrSetResult(reply) ==
    CASE reply.t = "ok" -> Success
      [] reply.t = "err" /\ reply.kind = "AlreadyExists" -> Success
      [] OTHER -> Failed

\* (Delete arms that take an absent address for done.)
AddrDelResultIdempotent(reply) ==
    CASE reply.t = "ok" -> Success
      [] reply.t = "err" /\ reply.kind \in {"AddrNotAvailable", "NotFound"} -> Success
      [] OTHER -> Failed

\* The `match result` of Ipv4AddrDel and Ipv6AddrDel.
AddrDelResult(reply) ==
    CASE reply.t = "ok" -> Success
      [] reply.t = "err" /\ reply.kind \in {"AddrNotAvailable", "NotFound"} -> NotFound
      [] OTHER -> Failed

\* (Delete arms that lack the index check.)
AddrIndexIsZeroSetOnly(req) ==
    req.kind \in {"Ipv4AddrSet", "Ipv6AddrSet"} /\ req.if_id = 0

\* `if if_id == 0 { respond(Failed); continue; }` that opens the four set and
\* delete arms of address::run_server.
AddrIndexIsZero(req) ==
    req.kind \in {"Ipv4AddrSet", "Ipv6AddrSet", "Ipv4AddrDel", "Ipv6AddrDel"} /\ req.if_id = 0

AddressStart(req) ==
    CASE req.kind \in {"Ipv4AddrsGet", "Ipv6AddrsGet"} ->
            Step(<<>>, <<Wire("get", req.if_id)>>, "stream", <<>>)
      [] AddrIndexIsZero(req) -> Step(<<Failed>>, <<>>, "accept", <<>>)
      [] req.kind \in {"Ipv4AddrSet", "Ipv6AddrSet"} ->
            Step(<<>>, <<Wire("add", req.if_id)>>, "exec", <<>>)
      [] req.kind \in {"Ipv4AddrDel", "Ipv6AddrDel"} ->
            Step(<<>>, <<Wire("del", req.if_id)>>, "exec", <<>>)
      [] OTHER -> Step(<<NotImplemented>>, <<>>, "accept", <<>>)

\* (An address loop that answers Failed when the reply stream yields an
\* error.)
AddressOnReplyStrict(req, phase, acc, reply) ==
    CASE phase = "stream" /\ reply.t = "msg" ->
            IF reply.family = AddrFamilyOf(req) /\ reply.addr = AddrFamilyOf(req)
            THEN Step(<<>>, <<>>, "stream", Append(acc, reply.addr))
            ELSE Step(<<>>, <<>>, "stream", acc)
      [] phase = "stream" /\ reply.t = "err" -> Step(<<Failed>>, <<>>, "accept", <<>>)
      [] phase = "stream" ->
            Step(<<Resp(IF AddrFamilyOf(req) = 4 THEN "Ipv4Addrs" ELSE "Ipv6Addrs", acc)>>,
                 <<>>, "accept", <<>>)
      [] req.kind \in {"Ipv4AddrSet", "Ipv6AddrSet"} ->
            Step(<<AddrSetResult(reply)>>, <<>>, "accept", <<>>)
      [] OTHER -> Step(<<AddrDelResult(reply)>>, <<>>, "accept", <<>>)

AddressOnReply(req, phase, acc, reply) ==
    CASE phase = "stream" /\ reply.t = "msg" ->
            IF reply.family = AddrFamilyOf(req) /\ reply.addr = AddrFamilyOf(req)
            THEN Step(<<>>, <<>>, "stream", Append(acc, reply.addr))
            ELSE Step(<<>>, <<>>, "stream", acc)
      [] phase = "stream" ->
            Step(<<Resp(IF AddrFamilyOf(req) = 4 THEN "Ipv4Addrs" ELSE "Ipv6Addrs", acc)>>,
                 <<>>, "accept", <<>>)
      [] req.kind \in {"Ipv4AddrSet", "Ipv6AddrSet"} ->
            Step(<<AddrSetResult(reply)>>, <<>>, "accept", <<>>)
      [] OTHER -> Step(<<AddrDelResult(reply)>>, <<>>, "accept", <<>>)

\* -------------------------------------------------------- neighbor loop
\* The `match request.execute().await` of add_or_change_neighbor and of
\* delete_neighbor.
NeighborResult(reply) ==
    CASE reply.t = "ok" -> Success
      [] reply.t = "err" /\ reply.kind = "NotFound" -> NotFound
      [] OTHER -> Failed

\* A NeighborEntry; state and flags are Options, <<>> for None and <<x>> for
\* Some(x).
NeighborEntry(if_id, destination, state, flags) ==
    [if_id |-> if_id, destination |-> destination, state |-> state, flags |-> flags]

\* (A decoding that hands the header's state and flags on as they are.)
neighbor_from_message_raw(msg) ==
    IF msg.dst \in {"none", "Other"} THEN <<>>
    ELSE <<NeighborEntry(msg.ifindex, msg.dst, <<msg.state>>, <<msg.flags>>)>>

\* neighbor_from_message: a message without a destination, or with one that is
\* neither Inet nor Inet6, is dropped; state None and empty flags become None.
neighbor_from_message(msg) ==
    IF msg.dst = "none" THEN <<>>
    ELSE IF msg.dst = "Other" THEN <<>>
    ELSE <<NeighborEntry(msg.ifindex, msg.dst,
                         IF msg.state = "None" THEN <<>> ELSE <<msg.state>>,
                         IF msg.flags = {} THEN <<>> ELSE <<msg.flags>>)>>

\* (A selection that ignores the interface filter.)
SelectNeighborsAnyInterface(entries, if_id, dst) ==
    SelectSeq(entries, LAMBDA e : dst = "" \/ e.destination = dst)

RECURSIVE SelectNeighbors(_, _, _)
SelectNeighbors(entries, if_id, dst) ==
    IF entries = <<>> THEN <<>>
    ELSE LET e == Head(entries)
             keep == (if_id = -1 \/ e.if_id = if_id) /\ (dst = "" \/ e.destination = dst)
         IN (IF keep THEN <<e>> ELSE <<>>) \o SelectNeighbors(Tail(entries), if_id, dst)

NeighborStart(req) ==
    CASE req.kind \in {"Add", "Change"} -> Step(<<>>, <<Wire("add", req.if_id)>>, "exec", <<>>)
      [] req.kind = "Delete" -> Step(<<>>, <<Wire("del", req.if_id)>>, "exec", <<>>)
      [] OTHER -> Step(<<>>, <<Wire("get", 0)>>, "stream", <<>>)

\* (A loop that issues the add again when the kernel answers with an error.)
NeighborOnReplyRetry(req, phase, acc, reply) ==
    CASE phase = "exec" /\ reply.t = "err" ->
            Step(<<>>, <<Wire("add", req.if_id)>>, "exec", <<>>)
      [] phase = "exec" -> Step(<<NeighborResult(reply)>>, <<>>, "accept", <<>>)
      [] OTHER -> Step(<<Failed>>, <<>>, "accept", <<>>)

\* list_neighbors and get_neighbor over fetch_neighbors: try_collect gathers
\* the whole stream and fails on its first error.
NeighborOnReply(req, phase, acc, reply) ==
    CASE phase = "exec" -> Step(<<NeighborResult(reply)>>, <<>>, "accept", <<>>)
      [] reply.t = "msg" -> Step(<<>>, <<>>, "stream", acc \o neighbor_from_message(reply))
      [] reply.t = "err" -> Step(<<Failed>>, <<>>, "accept", <<>>)
      [] req.kind = "List" ->
            Step(<<Resp("Neighbors", SelectNeighbors(acc, req.if_id, ""))>>, <<>>, "accept", <<>>)
      [] OTHER ->
            LET found == SelectNeighbors(acc, req.if_id, "D") IN
            IF found = <<>>
            THEN Step(<<NotFound>>, <<>>, "accept", <<>>)
            ELSE Step(<<Resp("Neighbor", <<Head(found)>>)>>, <<>>, "accept", <<>>)

\* ----------------------------------------------------------- route loop
RouteFamilyOf(req) ==
    IF req.kind \in {"Ipv4RouteList", "Ipv4RouteAdd", "Ipv4RouteReplace", "Ipv4RouteDel",
                     "Ipv4RouteGet", "Ipv4RouteGetByPrefix"}
    THEN 4 ELSE 6

\* (A route mapping that treats 'already exists' as done.)
map_route_result_idempotent(reply) ==
    CASE reply.t = "ok" -> Success
      [] reply.t = "err" /\ reply.kind = "NotFound" -> NotFound
      [] reply.t = "err" /\ reply.kind = "AlreadyExists" -> Success
      [] OTHER -> Failed

map_route_result(reply) ==
    CASE reply.t = "ok" -> Success
      [] reply.t = "err" /\ reply.kind = "NotFound" -> NotFound
      [] reply.t = "err" /\ reply.kind = "AlreadyExists" -> Failed
      [] OTHER -> Failed

\* Ipv4Net::contains: network() <= addr <= broadcast().
network(net) == net.addr - (net.addr % 2^(AddrBits - net.prefix_len))
broadcast(net) == network(net) + 2^(AddrBits - net.prefix_len) - 1
contains(net, addr) == network(net) <= addr /\ addr <= broadcast(net)

\* decode_ipv4_route / decode_ipv6_route, as far as the prefix goes: None for
\* a message of another family or when Ipv4Net::new rejects the length; a
\* missing Destination is the unspecified address.
decode_route(fam, msg) ==
    IF msg.family # fam THEN <<>>
    ELSE IF msg.plen > AddrBits THEN <<>>
    ELSE <<[route |-> Net(IF msg.dst = -1 THEN 0 ELSE msg.dst, msg.plen)]>>

\* build_route_message_v4 / build_route_message_v6: the lookup message.
build_route_message(fam, destination, prefix_len) ==
    [family |-> fam, destination_prefix_length |-> prefix_len,
     attributes |-> IF destination = -1 THEN <<>> ELSE <<[a |-> "Destination", v |-> destination]>>]

\* (A by-prefix predicate as loose as the by-destination one.)
RoutePredicateContains(req, route) == contains(route.route, req.dst)

\* The closures handed to lookup_route_v4/v6: |route| route.route.contains(&target)
\* by get_route_v4/v6, |route| route.route == target by get_route_v4/v6_by_prefix.
RoutePredicate(req, route) ==
    IF req.kind \in {"Ipv4RouteGet", "Ipv6RouteGet"}
    THEN contains(route.route, req.dst)
    ELSE route.route = Net(req.dst, req.plen)

\* (A lookup closure without the header.kind test.)
SkipsKindNever(msg) == FALSE

\* `matches!(msg.header.kind, RouteType::Local | RouteType::Broadcast)`
SkipsKind(msg) == msg.kind \in {"Local", "Broadcast"}

RouteStart(req) ==
    CASE req.kind \in {"Ipv4RouteAdd", "Ipv6RouteAdd"} ->
            Step(<<>>, <<Wire("add", 0)>>, "exec", <<>>)
      [] req.kind \in {"Ipv4RouteReplace", "Ipv6RouteReplace"} ->
            Step(<<>>, <<Wire("add.replace", 0)>>, "exec", <<>>)
      [] req.kind \in {"Ipv4RouteDel", "Ipv6RouteDel"} ->
            Step(<<>>, <<Wire("del", 0)>>, "exec", <<>>)
      [] req.kind \in {"Ipv4RouteGet", "Ipv6RouteGet"} ->
            Step(<<>>,
                 <<WireMsg("get", build_route_message(RouteFamilyOf(req), req.dst, AddrBits))>>,
                 "stream", <<>>)
      [] req.kind \in {"Ipv4RouteGetByPrefix", "Ipv6RouteGetByPrefix"} ->
            Step(<<>>,
                 <<WireMsg("get", build_route_message(RouteFamilyOf(req),
                                                      IF req.plen = 0 THEN -1 ELSE req.dst,
                                                      req.plen))>>,
                 "stream", <<>>)
      [] OTHER -> Step(<<>>, <<Wire("get", 0)>>, "stream", <<>>)

\* list_routes_v4/v6 and lookup_route with the closures of lookup_route_v4/v6.
\* (A stream error mapped like the result of an add or a delete.)
RouteStreamErrorMapped(reply) == IF reply.kind = "NotFound" THEN NotFound ELSE Failed

\* The `Err(err)` arm of the try_next() loops of list_routes_v4/v6 and of
\* lookup_route: a warning and Failed, whatever the error.
RouteStreamError(reply) == Failed

RouteOnReply(req, phase, acc, reply) ==
    LET fam == RouteFamilyOf(req)
        isList == req.kind \in {"Ipv4RouteList", "Ipv6RouteList"}
    IN
    CASE phase = "exec" -> Step(<<map_route_result(reply)>>, <<>>, "accept", <<>>)
      [] reply.t = "err" -> Step(<<RouteStreamError(reply)>>, <<>>, "accept", <<>>)
      [] reply.t = "end" /\ isList ->
            Step(<<Resp(IF fam = 4 THEN "Ipv4RouteList" ELSE "Ipv6RouteList", acc)>>,
                 <<>>, "accept", <<>>)
      [] reply.t = "end" -> Step(<<NotFound>>, <<>>, "accept", <<>>)
      [] isList -> Step(<<>>, <<>>, "stream", acc \o decode_route(fam, reply))
      [] OTHER ->
            LET route == decode_route(fam, reply) IN
            IF ~SkipsKind(reply) /\ route # <<>> /\ RoutePredicate(req, route[1])
            THEN Step(<<Resp(IF fam = 4 THEN "Ipv4Route" ELSE "Ipv6Route", route)>>,
                      <<>>, "accept", <<>>)
            ELSE Step(<<>>, <<>>, "stream", acc)

\* ---- multipath weights
\* RouteNextHop.hops is a u8, RouteNextHopInfo.weight a u32.
U8Max == 255
Min(a, b) == IF a < b THEN a ELSE b

\* convert_multipath: u32::from(path.hops).saturating_add(1); a u8 plus one
\* is below the u32 maximum, so the addition never saturates.
hops_to_weight(hops) == hops + 1

\* (An encoding that forgets the offset of one.)
weight_to_hops_plain(weight) == Min(weight, U8Max) % (U8Max + 1)

\* weight_to_hops: weight.saturating_sub(1).min(u8::MAX as u32) as u8
weight_to_hops(weight) ==
    Min(IF weight >= 1 THEN weight - 1 ELSE 0, U8Max) % (U8Max + 1)

\* ---- route messages
\* A domain route (Ipv4Route / Ipv6Route) as the message builders read it:
\* if_id (-1 for None), gateway (<<>> for None, or <<family, address>> with
\* family 4 or 6), whether source, metric and table are Some, and the
\* nexthops, each with if_id (-1 for None), gateway, weight and flags.
Attr(a, v) == [a |-> a, v |-> v]

\* The attribute a gateway of family g becomes in a message of family fam:
\* Gateway for the message's own family, Via for the other one.
GatewayAttr(fam, g) ==
    IF g = <<>> THEN <<>>
    ELSE IF g[1] = fam THEN <<Attr("Gateway", g)>> ELSE <<Attr("Via", g)>>

\* build_multipath_v4 / build_multipath_v6: one RouteNextHop per entry.
build_multipath(fam, entries) ==
    [i \in 1..Len(entries) |->
        [flags |-> entries[i].flags,
         hops |-> weight_to_hops(entries[i].weight),
         interface_index |-> IF entries[i].if_id = -1 THEN 0 ELSE entries[i].if_id,
         attributes |-> GatewayAttr(fam, entries[i].gateway)]]

\* (A decoder that knows the Gateway attribute only.)
convert_multipath_gateway_only(paths) ==
    [i \in 1..Len(paths) |->
        LET attrs == paths[i].attributes
            addrs == {j \in 1..Len(attrs) : attrs[j].a = "Gateway" /\ attrs[j].v[1] \in {4, 6}}
        IN [if_id |-> IF paths[i].interface_index = 0 THEN -1 ELSE paths[i].interface_index,
            gateway |-> IF addrs = {} THEN <<>>
                        ELSE attrs[CHOOSE j \in addrs : \A k \in addrs : k <= j].v,
            weight |-> hops_to_weight(paths[i].hops),
            flags |-> paths[i].flags]]

\* convert_multipath: one RouteNextHopInfo per RouteNextHop.  The gateway is
\* the address of the last Gateway or Via attribute of an IP family; the
\* interface index 0 is None.
convert_multipath(paths) ==
    [i \in 1..Len(paths) |->
        LET attrs == paths[i].attributes
            addrs == {j \in 1..Len(attrs) :
                        attrs[j].a \in {"Gateway", "Via"} /\ attrs[j].v[1] \in {4, 6}}
        IN [if_id |-> IF paths[i].interface_index = 0 THEN -1 ELSE paths[i].interface_index,
            gateway |-> IF addrs = {} THEN <<>>
                        ELSE attrs[CHOOSE j \in addrs : \A k \in addrs : k <= j].v,
            weight |-> hops_to_weight(paths[i].hops),
            flags |-> paths[i].flags]]

\* build_ipv4_route_message / build_ipv6_route_message: the attributes in the
\* order the builder receives them.
build_ip_route_message(fam, route) ==
    [family |-> fam,
     attributes |->
        <<Attr("Destination", fam)>>
        \o (IF route.if_id \notin {-1, 0} THEN <<Attr("Oif", route.if_id)>> ELSE <<>>)
        \o GatewayAttr(fam, route.gateway)
        \o (IF route.source THEN <<Attr("PrefSource", fam)>> ELSE <<>>)
        \o (IF route.metric THEN <<Attr("Priority", 1)>> ELSE <<>>)
        \o (IF route.table THEN <<Attr("Table", 1)>> ELSE <<>>)
        \o (IF route.nexthops # <<>> /\ build_multipath(fam, route.nexthops) # <<>>
            THEN <<Attr("MultiPath", build_multipath(fam, route.nexthops))>>
            ELSE <<>>)]

\* ------------------------------------------------------------- dispatch
\* The run_server of the loop that lib.rs binds to each channel.
Start(req) ==
    CASE req.sub = "link" -> LinkStart(req)
      [] req.sub = "virtual_interface" -> VIStart(req)
      [] req.sub = "address" -> AddressStart(req)
      [] req.sub = "neighbor" -> NeighborStart(req)
      [] req.sub = "route" -> RouteStart(req)

OnReply(req, phase, acc, reply) ==
    CASE req.sub = "link" -> LinkOnReply(req, phase, acc, reply)
      [] req.sub = "virtual_interface" -> VIOnReply(req, phase, acc, reply)
      [] req.sub = "address" -> AddressOnReply(req, phase, acc, reply)
      [] req.sub = "neighbor" -> NeighborOnReply(req, phase, acc, reply)
      [] req.sub = "route" -> RouteOnReply(req, phase, acc, reply)

\* --------------------------------------------------------------- facades
\* The io::Result a facade method returns: Ok with the payload, or an
\* io::Error with its ErrorKind and what its message is formatted from: the
\* operation's human-readable name (op), the Debug print of an unexpected
\* response variant (variant) and the fixed text.
Ok(val) == [ok |-> TRUE, kind |-> "", op |-> "", variant |-> "", text |-> "", val |-> val]
Err(kind, op, variant, text) ==
    [ok |-> FALSE, kind |-> kind, op |-> op, variant |-> variant, text |-> text, val |-> <<>>]

\* No result yet: the caller is still inside send_request.
Pending == [ok |-> FALSE, kind |-> "pending", op |-> "", variant |-> "", text |-> "", val |-> <<>>]

\* The `?` after send_request: the channel's error, converted to io::Error.
ChannelError == Err("Channel", "", "", "send_request")

\* The operation name each status-returning method passes to its handler.
OpName(req) ==
    CASE req.sub = "link" ->
           (CASE req.kind = "InterfaceSetAdmin" ->
                    IF req.x = "true" THEN "Set interface up" ELSE "Set interface down"
              [] req.kind = "InterfaceSetPromisc" ->
                    IF req.x = "true" THEN "Enable promiscuous mode"
                    ELSE "Disable promiscuous mode"
              [] req.kind = "InterfaceSetArp" ->
                    IF req.x = "true" THEN "Enable ARP" ELSE "Disable ARP"
              [] req.kind = "InterfaceSetAllMulticast" ->
                    IF req.x = "true" THEN "Enable all-multicast" ELSE "Disable all-multicast"
              [] req.kind = "InterfaceSetMtu" -> "Set MTU"
              [] req.kind = "InterfaceRename" -> "Rename interface"
              [] req.kind = "MacAddrSet" -> "Set MAC address"
              [] OTHER -> "")
      [] req.sub = "address" ->
           (CASE req.kind = "Ipv4AddrSet" -> "IPv4 address set"
              [] req.kind = "Ipv6AddrSet" -> "IPv6 address set"
              [] req.kind = "Ipv4AddrDel" -> "IPv4 address delete"
              [] req.kind = "Ipv6AddrDel" -> "IPv6 address delete"
              [] OTHER -> "")
      [] req.sub = "neighbor" ->
           (CASE req.kind = "Add" -> "Neighbor add"
              [] req.kind = "Change" -> "Neighbor change"
              [] req.kind = "Delete" -> "Neighbor delete"
              [] OTHER -> "")
      [] req.sub = "route" ->
           (CASE req.kind = "Ipv4RouteAdd" -> "IPv4 route add"
              [] req.kind = "Ipv4RouteReplace" -> "IPv4 route replace"
              [] req.kind = "Ipv4RouteDel" -> "IPv4 route delete"
              [] req.kind = "Ipv6RouteAdd" -> "IPv6 route add"
              [] req.kind = "Ipv6RouteReplace" -> "IPv6 route replace"
              [] req.kind = "Ipv6RouteDel" -> "IPv6 route delete"
              [] OTHER -> "")
      [] req.sub = "virtual_interface" ->
           (CASE req.kind = "Create" -> "Create virtual interface"
              [] req.kind = "Configure" -> "Configure virtual interface"
              [] req.kind = "Delete" -> "Delete virtual interface"
              [] OTHER -> "")

\* (A status mapping that reports a missing interface as a generic failure.)
handle_status_response_flat(op, response) ==
    CASE response.v = "Success" -> Ok(<<>>)
      [] response.v = "NotImplemented" -> Err("Unsupported", op, "", "not implemented")
      [] OTHER -> Err("Other", op, "", "failed")

\* link::handle_status_response
handle_status_response(op, response) ==
    CASE response.v = "Success" -> Ok(<<>>)
      [] response.v = "NotFound" -> Err("NotFound", op, "", "interface not found")
      [] response.v = "Failed" -> Err("Other", op, "", "failed")
      [] response.v = "NotImplemented" -> Err("Unsupported", op, "", "not implemented")
      [] OTHER -> Err("Other", op, response.v, "returned unexpected response")

\* address::handle_basic_response; the delete methods pass is_delete = true.
address_handle_basic_response(op, response, is_delete) ==
    CASE response.v = "Success" -> Ok(<<>>)
      [] response.v = "Failed" -> Err("Other", op, "", "request failed")
      [] response.v = "NotImplemented" -> Err("Unsupported", op, "", "request is not implemented")
      [] response.v = "NotFound" ->
            Err("NotFound", op, "", IF is_delete THEN "target not found" ELSE "not found")
      [] OTHER -> Err("Other", op, response.v, "returned unexpected response")

\* neighbor::handle_neighbor_response; every caller passes allow_not_found = false.
handle_neighbor_response(op, response, allow_not_found) ==
    CASE response.v = "Success" -> Ok(<<>>)
      [] response.v = "NotFound" /\ allow_not_found -> Ok(<<>>)
      [] response.v = "NotFound" -> Err("NotFound", op, "", "entry not found")
      [] response.v = "Failed" -> Err("Other", op, "", "failed")
      [] response.v = "NotImplemented" -> Err("Unsupported", op, "", "is not implemented")
      [] OTHER -> Err("Other", op, response.v, "returned unexpected response")

\* route::handle_route_status
handle_route_status(op, response) ==
    CASE response.v = "Success" -> Ok(<<>>)
      [] response.v = "NotFound" -> Err("NotFound", op, "", "route not found")
      [] response.v = "Failed" -> Err("Other", op, "", "failed")
      [] response.v = "NotImplemented" -> Err("Unsupported", op, "", "not implemented")
      [] OTHER -> Err("Other", op, response.v, "returned unexpected response")

\* virtual_interface::handle_basic_response
vi_handle_basic_response(op, response) ==
    CASE response.v = "Success" -> Ok(<<>>)
      [] response.v = "NotFound" -> Err("NotFound", op, "", "target not found")
      [] response.v = "Failed" -> Err("Other", op, "", "failed")
      [] OTHER -> Err("Other", op, response.v, "returned unexpected response")

\* A value-returning method written as
\*   match res { Value(v) => Ok(v), NotFound => Err(NotFound), other => Err(other(.. {:?})) }
LookupResult(response, value, text) ==
    CASE response.v = value -> Ok(response.data)
      [] response.v = "NotFound" -> Err("NotFound", "", "", text)
      [] OTHER -> Err("Other", "", response.v, "Unexpected response")

\* A list method written as
\*   match res { List(l) => Ok(l), other => Err(other(.. {:?})) }
ListResult(response, value) ==
    IF response.v = value THEN Ok(response.data)
    ELSE Err("Other", "", response.v, "Unexpected response")

\* RtnlLinkClient::interface_get and ::mtu_get
interface_get(response) ==
    CASE response.v = "Interface" -> Ok(response.data)
      [] response.v = "NotFound" -> Err("NotFound", "", "", "Interface not found")
      [] OTHER -> Err("Other", "", "", "Failed to get interface")

mtu_get(response) ==
    CASE response.v = "Mtu" -> Ok(response.data)
      [] response.v = "NotFound" -> Err("NotFound", "", "", "Interface not found")
      [] OTHER -> Err("Other", "", "", "Failed to get MTU")

\* RtnlLinkClient::interface_get_by_name: every other variant falls out of the
\* match to the one Err after it.
interface_get_by_name(response) ==
    IF response.v = "Interface" THEN Ok(response.data)
    ELSE Err("Other", "", "", "Not found")

\* RtnlLinkClient::mac_addr_get: every other variant falls out of the match
\* to Ok(None).
mac_addr_get(response) ==
    IF response.v = "MacAddr" THEN Ok(<<"Some", response.data>>)
    ELSE Ok(<<"None">>)

\* RtnlLinkClient::interface_list
interface_list(response) ==
    IF response.v = "InterfaceList" THEN Ok(response.data)
    ELSE Err("Other", "", "", "Unknown error")

\* RtnlAddressClient::ipv4_addrs_get and ::ipv6_addrs_get
addrs_get(response, value, text) ==
    IF response.v = value THEN Ok(response.data)
    ELSE Err("Other", "", "", text)

\* The facade method that sends req, applied to the response it receives.
Facade(req, response) ==
    CASE req.sub = "link" ->
           (CASE req.kind = "InterfaceGet" -> interface_get(response)
              [] req.kind = "InterfaceGetByName" -> interface_get_by_name(response)
              [] req.kind = "MacAddrGet" -> mac_addr_get(response)
              [] req.kind = "MtuGet" -> mtu_get(response)
              [] req.kind = "InterfaceList" -> interface_list(response)
              [] OTHER -> handle_status_response(OpName(req), response))
      [] req.sub = "address" ->
           (CASE req.kind = "Ipv4AddrsGet" ->
                    addrs_get(response, "Ipv4Addrs", "Failed to get IPv4 addresses")
              [] req.kind = "Ipv6AddrsGet" ->
                    addrs_get(response, "Ipv6Addrs", "Failed to get IPv6 addresses")
              [] OTHER -> address_handle_basic_response(OpName(req), response,
                                                        req.kind \in {"Ipv4AddrDel", "Ipv6AddrDel"}))
      [] req.sub = "neighbor" ->
           (CASE req.kind = "List" -> ListResult(response, "Neighbors")
              [] req.kind = "Get" -> LookupResult(response, "Neighbor", "Neighbor not found")
              [] OTHER -> handle_neighbor_response(OpName(req), response, FALSE))
      [] req.sub = "route" ->
           (CASE req.kind = "Ipv4RouteList" -> ListResult(response, "Ipv4RouteList")
              [] req.kind = "Ipv6RouteList" -> ListResult(response, "Ipv6RouteList")
              [] req.kind \in {"Ipv4RouteGet", "Ipv4RouteGetByPrefix"} ->
                    LookupResult(response, "Ipv4Route", "Route not found")
              [] req.kind \in {"Ipv6RouteGet", "Ipv6RouteGetByPrefix"} ->
                    LookupResult(response, "Ipv6Route", "Route not found")
              [] OTHER -> handle_route_status(OpName(req), response))
      [] req.sub = "virtual_interface" ->
           (CASE req.kind = "GetIndexByName" ->
                    LookupResult(response, "Index", "Virtual interface not found")
              [] OTHER -> vi_handle_basic_response(OpName(req), response))

\* ------------------------------------------------------------------ state
VARIABLES
    scope,      \* what is explored: "concurrent" callers, one "sequential" caller, "facade"
    once,       \* CLIENT, the OnceLock: "uninit", "running" (a closure runs), "set"
    stored,     \* the handle CLIENT holds: the number of the setup that made it, 0 if none
    setups,     \* how many times new_inner has run
    tpc,        \* per thread: "start", "init", "blocked", "ready", "waiting"
    holder,     \* per thread: the handle its last new() returned, 0 if none
    worker,     \* the worker thread: "none", "spawned", "rt", "running", "failed", "panicked"
    rx,         \* the five server ends of the channels: "none", "alive", "dropped"
    queue,      \* per subsystem: the callers whose request waits in the channel, in order
    lpc,        \* per subsystem loop: "accept", "exec", "stream"
    cur,        \* per subsystem loop: the caller whose request it processes, 0 if none
    acc,        \* per subsystem loop: what the current arm has collected
    nmsg,       \* per subsystem loop: messages the current reply stream has yielded
    call,       \* per thread: its current or last facade call
    ticket,     \* number of facade calls issued so far
    submitted,  \* per subsystem: the tickets of the requests sent to it, in order
    answered,   \* per subsystem: the tickets of the requests it responded to, in order
    fin,        \* facade check: the method and the response handed to it
    fout,       \* facade check: what the method returned
    ktab,       \* kernel tables (when tracked): the addresses and routes present
    kres,       \* the kernel's last answer to a tracked request (when tracked)
    prev        \* per thread (when tracked): its call before the current one

loopVars == <<rx, queue, lpc, cur, acc, nmsg>>
onceVars == <<once, stored, setups, holder>>
logVars == <<submitted, answered>>
facadeVars == <<scope, fin, fout>>
envVars == <<ktab, kres, prev>>

\* Who issues facade calls, and which requests they choose from.  Every
\* thread calls RtnlClient::new(); the first two of them then call facade
\* methods concurrently.
Callers == IF scope \in {"concurrent", "race"} THEN {1, 2} ELSE {1}
Menu(sub) ==
    CASE scope = "concurrent" -> SampleRequests(sub)
      [] scope = "kernel" ->
            {r \in Requests(sub) :
                r.sub \in {"address", "route"}
                    /\ r.kind \notin {"Ipv4AddrsGet", "Ipv6AddrsGet", "Ipv4RouteList",
                                       "Ipv6RouteList", "Ipv4RouteGet", "Ipv6RouteGet",
                                       "Ipv4RouteGetByPrefix", "Ipv6RouteGetByPrefix"}}
      [] scope = "race" -> RaceRequests(sub)
      [] scope = "reads" ->
            {r \in Requests(sub) : IsRead(r) /\ (r.sub = "route" => RouteTargetIsZero(r))}
                \cup SampleRequests(sub)
      [] scope = "lookup" ->
            {r \in Requests(sub) :
                \/ r.sub = "route"
                      /\ r.kind \in {"Ipv4RouteGet", "Ipv6RouteGet", "Ipv4RouteGetByPrefix",
                                      "Ipv6RouteGetByPrefix"}
                \/ r.sub = "neighbor" /\ r.kind \in {"List", "Get"}
                \/ r.sub = "link"
                \/ r.sub = "virtual_interface" /\ r.kind \in {"Delete", "GetIndexByName"}}
              \cup (IF sub = "link" THEN AllMulticastRequests ELSE {})
      [] OTHER -> Requests(sub)
vars == <<scope, once, stored, setups, tpc, holder, worker, rx, queue, lpc, cur, acc, nmsg,
          call, ticket, submitted, answered, fin, fout, ktab, kres, prev>>

NoReq == Req("", "", 0, "")
\* st: "idle" (no call yet), "queued", "accepted" (a loop took the request),
\* "returned" (with a response), "refused" (send_request failed at once),
\* "dropped" (send_request failed while the caller was blocked).
NoCall == [id |-> 0, req |-> NoReq, st |-> "idle", resps |-> <<>>, wires |-> <<>>,
           out |-> Pending]
NoFacadeInput == [req |-> NoReq, resp |-> Success]
NoPrev == [req |-> NoReq, out |-> Pending, tbl |-> {}]

InitLoops ==
    /\ rx = "none"
    /\ queue = [s \in Subsys |-> <<>>]
    /\ lpc = [s \in Subsys |-> "accept"]
    /\ cur = [s \in Subsys |-> 0]
    /\ acc = [s \in Subsys |-> <<>>]
    /\ nmsg = [s \in Subsys |-> 0]

InitProgram ==
    /\ once = "uninit"
    /\ stored = 0
    /\ setups = 0
    /\ tpc = [t \in Threads |-> "start"]
    /\ holder = [t \in Threads |-> 0]
    /\ worker = "none"
    /\ InitLoops
    /\ call = [t \in Threads |-> NoCall]
    /\ ticket = 0
    /\ submitted = [s \in Subsys |-> <<>>]
    /\ answered = [s \in Subsys |-> <<>>]
    /\ fin = NoFacadeInput
    /\ fout = Pending
    /\ ktab = {}
    /\ kres = OkReply
    /\ prev = [t \in Threads |-> NoPrev]

Init == scope = "concurrent" /\ InitProgram

\* The program after thread 1's first RtnlClient::new() has returned.
InitSeq ==
    /\ scope = "sequential"
    /\ once = "set"
    /\ stored = 1
    /\ setups = 1
    /\ tpc = [t \in Threads |-> IF t = 1 THEN "ready" ELSE "start"]
    /\ holder = [t \in Threads |-> IF t = 1 THEN 1 ELSE 0]
    /\ worker = "spawned"
    /\ rx = "alive"
    /\ queue = [s \in Subsys |-> <<>>]
    /\ lpc = [s \in Subsys |-> "accept"]
    /\ cur = [s \in Subsys |-> 0]
    /\ acc = [s \in Subsys |-> <<>>]
    /\ nmsg = [s \in Subsys |-> 0]
    /\ call = [t \in Threads |-> NoCall]
    /\ ticket = 0
    /\ submitted = [s \in Subsys |-> <<>>]
    /\ answered = [s \in Subsys |-> <<>>]
    /\ fin = NoFacadeInput
    /\ fout = Pending
    /\ ktab = {}
    /\ kres = OkReply
    /\ prev = [t \in Threads |-> NoPrev]

\* ------------------------------------------------------ RtnlClient::new
\* CLIENT.get_or_init(|| Self::new_inner()): the caller that finds the cell
\* empty runs the closure; a caller that arrives while it runs blocks until
\* the value is stored; every caller leaves with a clone of the stored value.
\* A thread may call new() any number of times: a call made once the cell is
\* set changes nothing but the caller's own clone.
\* (A cell that also lets a caller in while a closure is still running.)
RunsInitRacy == once # "set"

RunsInit == once = "uninit"

NewEnter(t) ==
    /\ tpc[t] \in {"start", "ready"}
    /\ IF once = "set"
       THEN /\ holder' = [holder EXCEPT ![t] = stored]
            /\ tpc' = [tpc EXCEPT ![t] = "ready"]
            /\ once' = once
       ELSE IF RunsInit
       THEN /\ once' = "running"
            /\ tpc' = [tpc EXCEPT ![t] = "init"]
            /\ holder' = holder
       ELSE /\ tpc' = [tpc EXCEPT ![t] = "blocked"]
            /\ UNCHANGED <<once, holder>>
    /\ UNCHANGED <<stored, setups, worker, loopVars, call, ticket, logVars, facadeVars, envVars>>

\* new_inner: five create_pair() calls, std::thread::spawn of the worker, and
\* the RtnlClient built from the five senders; get_or_init stores it.
NewInner(t) ==
    /\ tpc[t] = "init"
    /\ setups' = setups + 1
    /\ stored' = setups + 1
    /\ once' = "set"
    /\ holder' = [holder EXCEPT ![t] = setups + 1]
    /\ tpc' = [tpc EXCEPT ![t] = "ready"]
    /\ worker' = "spawned"
    /\ rx' = "alive"
    /\ UNCHANGED <<queue, lpc, cur, acc, nmsg, call, ticket, logVars, facadeVars, envVars>>

NewUnblock(t) ==
    /\ tpc[t] = "blocked"
    /\ once = "set"
    /\ holder' = [holder EXCEPT ![t] = stored]
    /\ tpc' = [tpc EXCEPT ![t] = "ready"]
    /\ UNCHANGED <<once, stored, setups, worker, loopVars, call, ticket, logVars,
                   facadeVars, envVars>>

\* ------------------------------------------------------------ the worker
\* The five server ends live in the worker's closure, then in the async
\* block: when the closure returns or unwinds they are dropped, together
\* with every queued request and every responder not yet used.
Disconnected == rx = "dropped"

DropServers(state) ==
    /\ worker' = state
    /\ rx' = "dropped"
    /\ queue' = [s \in Subsys |-> <<>>]
    /\ lpc' = [s \in Subsys |-> "accept"]
    /\ cur' = [s \in Subsys |-> 0]
    /\ acc' = [s \in Subsys |-> <<>>]
    /\ nmsg' = [s \in Subsys |-> 0]

\* tokio::runtime::Builder::build() returns Ok.
WorkerRtOk ==
    /\ worker = "spawned"
    /\ worker' = "rt"
    /\ UNCHANGED <<onceVars, tpc, loopVars, call, ticket, logVars, facadeVars, envVars>>

\* (A worker that returns while the server ends stay alive elsewhere.)
WorkerRtFailKeepsServers ==
    /\ worker = "spawned"
    /\ worker' = "failed"
    /\ UNCHANGED <<onceVars, tpc, loopVars, call, ticket, logVars, facadeVars, envVars>>

\* build() returns Err: the thread logs and returns.
WorkerRtFail ==
    /\ worker = "spawned"
    /\ DropServers("failed")
    /\ UNCHANGED <<onceVars, tpc, call, ticket, logVars, facadeVars, envVars>>

\* rtnetlink::new_connection() returns Ok: the five loops are pushed and
\* join_all polls them.
WorkerConnOk ==
    /\ worker = "rt"
    /\ worker' = "running"
    /\ UNCHANGED <<onceVars, tpc, loopVars, call, ticket, logVars, facadeVars, envVars>>

\* new_connection() returns Err: `?` leaves the async block.
WorkerConnFail ==
    /\ worker = "rt"
    /\ DropServers("failed")
    /\ UNCHANGED <<onceVars, tpc, call, ticket, logVars, facadeVars, envVars>>

\* ------------------------------------------------------- the server loops
\* What one handler step does to the loop and to the caller's call record.
\* A panic unwinds block_on on the worker thread: all five loops die.
Apply(s, t, st, accepting, isMsg) ==
    IF st.panic
    THEN /\ DropServers("panicked")
         /\ call' = [call EXCEPT ![t].st = "accepted"]
         /\ UNCHANGED answered
    ELSE /\ UNCHANGED <<worker, rx>>
         /\ queue' = [queue EXCEPT ![s] = IF accepting THEN Tail(@) ELSE @]
         /\ lpc' = [lpc EXCEPT ![s] = st.next]
         /\ cur' = [cur EXCEPT ![s] = IF st.next = "accept" THEN 0 ELSE t]
         /\ acc' = [acc EXCEPT ![s] = st.acc]
         /\ nmsg' = [nmsg EXCEPT ![s] = IF st.next # "stream" THEN 0
                                         ELSE IF isMsg THEN @ + 1 ELSE @]
         /\ call' = [call EXCEPT ![t].st = "accepted",
                                 ![t].resps = @ \o st.resp,
                                 ![t].wires = @ \o st.wire]
         /\ answered' = [answered EXCEPT
                            ![s] = IF st.resp = <<>> THEN @ ELSE Append(@, call[t].id)]

\* (A loop that takes the next request while the current one is in flight.)
CanAcceptWhileBusy(s) == worker = "running" /\ queue[s] # <<>>

\* (Loops that run one after the other instead of interleaved by join_all.)
CanAcceptSerial(s) ==
    /\ worker = "running"
    /\ \A o \in Subsys : lpc[o] = "accept"
    /\ queue[s] # <<>>

\* `while let Some((req, respond)) = server.accept().await`: the loop takes
\* the next request only from its accept point.
CanAccept(s) == worker = "running" /\ lpc[s] = "accept" /\ queue[s] # <<>>

\* (A loop that, once it has answered a request, answers the later ones from
\* what it remembers instead of asking the kernel.)
AcceptCached(s) ==
    /\ CanAccept(s)
    /\ LET t == Head(queue[s]) IN
       Apply(s, t, IF answered[s] # <<>> THEN Step(<<NotFound>>, <<>>, "accept", <<>>)
                   ELSE Start(call[t].req), TRUE, FALSE)
    /\ UNCHANGED <<onceVars, tpc, ticket, submitted, facadeVars, envVars>>

Accept(s) ==
    /\ CanAccept(s)
    /\ LET t == Head(queue[s]) IN Apply(s, t, Start(call[t].req), TRUE, FALSE)
    /\ UNCHANGED <<onceVars, tpc, ticket, submitted, facadeVars, envVars>>

\* ---- the kernel as a pair of tables (scope "kernel")
\* The requests whose execute().await adds to or deletes from a kernel
\* table, and the table entry each names: an address by interface and
\* family, a route by family.
KernelAdds(req) == req.kind \in {"Ipv4AddrSet", "Ipv6AddrSet", "Ipv4RouteAdd", "Ipv6RouteAdd"}
KernelReplaces(req) == req.kind \in {"Ipv4RouteReplace", "Ipv6RouteReplace"}
KernelDeletes(req) ==
    req.kind \in {"Ipv4AddrDel", "Ipv6AddrDel", "Ipv4RouteDel", "Ipv6RouteDel"}
KernelTracks(req) ==
    /\ scope = "kernel"
    /\ req.sub \in {"address", "route"}
    /\ KernelAdds(req) \/ KernelReplaces(req) \/ KernelDeletes(req)
KernelKey(req) ==
    <<req.sub, req.if_id, IF req.sub = "address" THEN AddrFamilyOf(req) ELSE RouteFamilyOf(req)>>

\* Answers that do not depend on the tables: any other errno (EPERM, ENODEV)
\* and a failure of the transport.
KernelFailures == {[t |-> "err", kind |-> k] : k \in {"OtherErrno", "Transport"}}

\* The kernel's answer: an exclusive add of a present entry is refused with
\* EEXIST, a delete of an absent address with EADDRNOTAVAIL or with an errno
\* of kind NotFound, a delete of an absent route with an errno of kind
\* NotFound (or with one of another kind, which is among the failures); or a
\* failure.
KernelReplies(req) ==
    KernelFailures \cup
    CASE KernelAdds(req) ->
            IF KernelKey(req) \in ktab THEN {[t |-> "err", kind |-> "AlreadyExists"]}
            ELSE {OkReply}
      [] KernelReplaces(req) -> {OkReply}
      [] KernelKey(req) \in ktab -> {OkReply}
      [] req.sub = "address" ->
            {[t |-> "err", kind |-> k] : k \in {"AddrNotAvailable", "NotFound"}}
      [] OTHER -> {[t |-> "err", kind |-> "NotFound"]}

KernelAfter(req, reply) ==
    CASE ~KernelTracks(req) \/ reply.t # "ok" -> ktab
      [] KernelDeletes(req) -> ktab \ {KernelKey(req)}
      [] OTHER -> ktab \cup {KernelKey(req)}

\* The link messages a name resolution is offered under scope "lookup": index
\* 0 and two interfaces.
ResolveMsgs == {LinkMsg(i, "n", "none", 0) : i \in 0..2}

\* The replies an awaited wire operation can give at this point.  Under scope
\* "lookup" a route get is offered every route message.
Replies(s) ==
    IF lpc[s] = "exec" /\ KernelTracks(call[cur[s]].req) THEN KernelReplies(call[cur[s]].req)
    ELSE IF lpc[s] = "exec" THEN {OkReply} \cup ErrReplies
    ELSE {EndReply} \cup ErrReplies
            \cup (IF nmsg[s] >= MaxReplies THEN {}
                  ELSE IF scope = "lookup" /\ call[cur[s]].req.sub = "route" THEN RouteMsgsAll
                  ELSE IF scope \in {"lookup", "race"}
                          /\ call[cur[s]].req.sub = "virtual_interface"
                  THEN ResolveMsgs
                  ELSE IF scope = "lookup" /\ call[cur[s]].req.sub = "neighbor"
                  THEN NeighMsgsAll
                  ELSE IF scope = "reads" THEN ReadMsgs(call[cur[s]].req)
                  ELSE StreamMsgs(call[cur[s]].req))

\* Under scope "reads" kres is the whole sequence of replies the kernel gave
\* to the call with this ticket.
NoReplies == [id |-> 0, replies |-> <<>>]
Replied(id, reply) ==
    [id |-> id, replies |-> IF kres.id = id THEN Append(kres.replies, reply) ELSE <<reply>>]

KernelReply(s) ==
    /\ worker = "running"
    /\ lpc[s] \in {"exec", "stream"}
    /\ \E reply \in Replies(s) :
          /\ Apply(s, cur[s], OnReply(call[cur[s]].req, lpc[s], acc[s], reply), FALSE,
                   reply.t = "msg")
          /\ ktab' = KernelAfter(call[cur[s]].req, reply)
          /\ kres' = IF scope = "race"
                     THEN (IF s = "virtual_interface" THEN reply ELSE kres)
                     ELSE IF scope = "reads" THEN Replied(call[cur[s]].id, reply)
                     ELSE IF KernelTracks(call[cur[s]].req) \/ scope = "lookup" THEN reply
                     ELSE kres
    /\ UNCHANGED <<onceVars, tpc, ticket, submitted, facadeVars, prev>>

\* ---------------------------------------------------------- the callers
\* What the caller's next call keeps of the call before it, and of the kernel
\* tables as that call left them.
Remember(t) ==
    IF scope = "kernel"
    THEN [prev EXCEPT ![t] = [req |-> call[t].req, out |-> call[t].out, tbl |-> ktab]]
    ELSE prev

\* Under scope "reads" the record of replies starts afresh with every call.
ForNextCall == IF scope = "reads" THEN NoReplies ELSE kres

\* The facade calls one behaviour follows: a lookup is followed through every
\* reply stream, for LookupCalls requests.
CallLimit == IF scope = "lookup" THEN LookupCalls ELSE MaxCalls

\* A facade method: client.send_request(req)? and then the method's match.
\* send_request on a channel whose server end is gone returns the error at
\* once; otherwise the request is queued and the caller blocks.
Send(t) ==
    /\ t \in Callers
    /\ tpc[t] = "ready"
    /\ holder[t] # 0
    /\ ticket < CallLimit
    /\ ~Disconnected
    /\ \E s \in Subsys : \E req \in Menu(s) :
          /\ call' = [call EXCEPT ![t] = [id |-> ticket + 1, req |-> req, st |-> "queued",
                                          resps |-> <<>>, wires |-> <<>>, out |-> Pending]]
          /\ queue' = [queue EXCEPT ![s] = Append(@, t)]
          /\ submitted' = [submitted EXCEPT ![s] = Append(@, ticket + 1)]
    /\ ticket' = ticket + 1
    /\ tpc' = [tpc EXCEPT ![t] = "waiting"]
    /\ prev' = Remember(t)
    /\ kres' = ForNextCall
    /\ UNCHANGED <<onceVars, worker, rx, lpc, cur, acc, nmsg, answered, facadeVars, ktab>>

SendFails(t) ==
    /\ t \in Callers
    /\ tpc[t] = "ready"
    /\ holder[t] # 0
    /\ ticket < CallLimit
    /\ Disconnected
    /\ \E s \in Subsys : \E req \in Menu(s) :
          call' = [call EXCEPT ![t] = [id |-> ticket + 1, req |-> req, st |-> "refused",
                                       resps |-> <<>>, wires |-> <<>>, out |-> ChannelError]]
    /\ ticket' = ticket + 1
    /\ prev' = Remember(t)
    /\ kres' = ForNextCall
    /\ UNCHANGED <<onceVars, tpc, worker, loopVars, logVars, facadeVars, ktab>>

\* The blocked caller receives the response and the method maps it.
RecvResponse(t) ==
    /\ tpc[t] = "waiting"
    /\ call[t].resps # <<>>
    /\ call' = [call EXCEPT ![t].st = "returned",
                            ![t].out = Facade(call[t].req, Head(call[t].resps))]
    /\ tpc' = [tpc EXCEPT ![t] = "ready"]
    /\ UNCHANGED <<onceVars, worker, loopVars, ticket, logVars, facadeVars, envVars>>

\* The blocked caller finds the server end gone and no response delivered.
RecvDisconnected(t) ==
    /\ tpc[t] = "waiting"
    /\ call[t].resps = <<>>
    /\ Disconnected
    /\ call' = [call EXCEPT ![t].st = "dropped", ![t].out = ChannelError]
    /\ tpc' = [tpc EXCEPT ![t] = "ready"]
    /\ UNCHANGED <<onceVars, worker, loopVars, ticket, logVars, facadeVars, envVars>>

\* The calls of RtnlClient::new().
NextNew ==
    \/ \E t \in Threads : NewEnter(t)
    \/ \E t \in Threads : NewInner(t)
    \/ \E t \in Threads : NewUnblock(t)

\* The worker, the five loops and the facade calls.
NextRun ==
    \/ WorkerRtOk
    \/ WorkerRtFail
    \/ WorkerConnOk
    \/ WorkerConnFail
    \/ \E s \in Subsys : Accept(s)
    \/ \E s \in Subsys : KernelReply(s)
    \/ \E t \in Threads : Send(t)
    \/ \E t \in Threads : SendFails(t)
    \/ \E t \in Threads : RecvResponse(t)
    \/ \E t \in Threads : RecvDisconnected(t)

Next == NextNew \/ NextRun

\* The whole program: concurrent callers of new() and of the facades, over
\* the sample requests.
Spec == Init /\ [][Next]_vars

\* One caller over every request of every subsystem.
SpecSeq == InitSeq /\ [][NextRun]_vars

\* One caller adding, replacing and deleting addresses and routes on a kernel
\* that keeps its tables.
InitKernel ==
    /\ scope = "kernel"
    /\ once = "set"
    /\ stored = 1
    /\ setups = 1
    /\ tpc = [t \in Threads |-> IF t = 1 THEN "ready" ELSE "start"]
    /\ holder = [t \in Threads |-> IF t = 1 THEN 1 ELSE 0]
    /\ worker = "spawned"
    /\ rx = "alive"
    /\ queue = [s \in Subsys |-> <<>>]
    /\ lpc = [s \in Subsys |-> "accept"]
    /\ cur = [s \in Subsys |-> 0]
    /\ acc = [s \in Subsys |-> <<>>]
    /\ nmsg = [s \in Subsys |-> 0]
    /\ call = [t \in Threads |-> NoCall]
    /\ ticket = 0
    /\ submitted = [s \in Subsys |-> <<>>]
    /\ answered = [s \in Subsys |-> <<>>]
    /\ fin = NoFacadeInput
    /\ fout = Pending
    /\ ktab \in SUBSET {<<"address", 1, 4>>, <<"route", 0, 4>>}
    /\ kres = OkReply
    /\ prev = [t \in Threads |-> NoPrev]

SpecKernel == InitKernel /\ [][NextRun]_vars

\* One caller looking routes up, by destination and by prefix, getting and
\* listing neighbours, issuing the link requests, and deleting and resolving
\* virtual interfaces, against every reply stream of up to MaxReplies
\* messages; kres keeps the kernel's latest reply.
InitLookup ==
    /\ scope = "lookup"
    /\ once = "set"
    /\ stored = 1
    /\ setups = 1
    /\ tpc = [t \in Threads |-> IF t = 1 THEN "ready" ELSE "start"]
    /\ holder = [t \in Threads |-> IF t = 1 THEN 1 ELSE 0]
    /\ worker = "spawned"
    /\ rx = "alive"
    /\ queue = [s \in Subsys |-> <<>>]
    /\ lpc = [s \in Subsys |-> "accept"]
    /\ cur = [s \in Subsys |-> 0]
    /\ acc = [s \in Subsys |-> <<>>]
    /\ nmsg = [s \in Subsys |-> 0]
    /\ call = [t \in Threads |-> NoCall]
    /\ ticket = 0
    /\ submitted = [s \in Subsys |-> <<>>]
    /\ answered = [s \in Subsys |-> <<>>]
    /\ fin = NoFacadeInput
    /\ fout = Pending
    /\ ktab = {}
    /\ kres = OkReply
    /\ prev = [t \in Threads |-> NoPrev]

SpecLookup == InitLookup /\ [][NextRun]_vars

\* One caller issuing get and list requests, and the sample requests between
\* them, one after the other; kres keeps the replies to the current request.
InitReads ==
    /\ scope = "reads"
    /\ once = "set"
    /\ stored = 1
    /\ setups = 1
    /\ tpc = [t \in Threads |-> IF t = 1 THEN "ready" ELSE "start"]
    /\ holder = [t \in Threads |-> IF t = 1 THEN 1 ELSE 0]
    /\ worker = "spawned"
    /\ rx = "alive"
    /\ queue = [s \in Subsys |-> <<>>]
    /\ lpc = [s \in Subsys |-> "accept"]
    /\ cur = [s \in Subsys |-> 0]
    /\ acc = [s \in Subsys |-> <<>>]
    /\ nmsg = [s \in Subsys |-> 0]
    /\ call = [t \in Threads |-> NoCall]
    /\ ticket = 0
    /\ submitted = [s \in Subsys |-> <<>>]
    /\ answered = [s \in Subsys |-> <<>>]
    /\ fin = NoFacadeInput
    /\ fout = Pending
    /\ ktab = {}
    /\ kres = NoReplies
    /\ prev = [t \in Threads |-> NoPrev]

SpecReads == InitReads /\ [][NextRun]_vars

\* Two callers, one loop resolving names and deleting by name, the link loop
\* renaming meanwhile; kres keeps the latest reply to the virtual_interface
\* loop.
InitRace ==
    /\ scope = "race"
    /\ once = "set"
    /\ stored = 1
    /\ setups = 1
    /\ tpc = [t \in Threads |-> IF t \in {1, 2} THEN "ready" ELSE "start"]
    /\ holder = [t \in Threads |-> IF t \in {1, 2} THEN 1 ELSE 0]
    /\ worker = "spawned"
    /\ rx = "alive"
    /\ queue = [s \in Subsys |-> <<>>]
    /\ lpc = [s \in Subsys |-> "accept"]
    /\ cur = [s \in Subsys |-> 0]
    /\ acc = [s \in Subsys |-> <<>>]
    /\ nmsg = [s \in Subsys |-> 0]
    /\ call = [t \in Threads |-> NoCall]
    /\ ticket = 0
    /\ submitted = [s \in Subsys |-> <<>>]
    /\ answered = [s \in Subsys |-> <<>>]
    /\ fin = NoFacadeInput
    /\ fout = Pending
    /\ ktab = {}
    /\ kres = OkReply
    /\ prev = [t \in Threads |-> NoPrev]

SpecRace == InitRace /\ [][NextRun]_vars

\* The whole program under scheduling: a caller blocked in send_request is
\* woken when its response arrives or when the server end of its channel is
\* dropped, and the operating system runs a runnable thread.
Fairness ==
    \A t \in Threads : WF_vars(RecvResponse(t)) /\ WF_vars(RecvDisconnected(t))

LiveSpec == Spec /\ Fairness

\* ------------------------------------------------- the facades on their own
\* The variants of each subsystem's response enum, with a sample payload.
Responses(sub) ==
    CASE sub = "link" ->
            {Success, Failed, NotImplemented, NotFound, Resp("InterfaceList", <<"v">>),
             Resp("Interface", <<"v">>), Resp("MacAddr", <<"v">>), Resp("Mtu", <<"v">>)}
      [] sub = "address" ->
            {Success, Failed, NotImplemented, NotFound, Resp("Ipv4Addrs", <<"v">>),
             Resp("Ipv6Addrs", <<"v">>)}
      [] sub = "neighbor" ->
            {Success, Failed, NotImplemented, NotFound, Resp("Neighbors", <<"v">>),
             Resp("Neighbor", <<"v">>)}
      [] sub = "route" ->
            {Success, Failed, NotImplemented, NotFound, Resp("Ipv4RouteList", <<"v">>),
             Resp("Ipv6RouteList", <<"v">>), Resp("Ipv4Route", <<"v">>),
             Resp("Ipv6Route", <<"v">>)}
      [] sub = "virtual_interface" ->
            {Success, Failed, NotFound, Resp("Index", <<"v">>)}

\* A facade method and a response of its channel's type.
FacadeInputs ==
    UNION {{[req |-> req, resp |-> resp] : req \in Requests(sub), resp \in Responses(sub)} :
             sub \in Subsys}

InitFacade ==
    /\ scope = "facade"
    /\ once = "uninit"
    /\ stored = 0
    /\ setups = 0
    /\ tpc = [t \in Threads |-> "start"]
    /\ holder = [t \in Threads |-> 0]
    /\ worker = "none"
    /\ InitLoops
    /\ call = [t \in Threads |-> NoCall]
    /\ ticket = 0
    /\ submitted = [s \in Subsys |-> <<>>]
    /\ answered = [s \in Subsys |-> <<>>]
    /\ fin \in FacadeInputs
    /\ fout = Pending
    /\ ktab = {}
    /\ kres = OkReply
    /\ prev = [t \in Threads |-> NoPrev]

\* The method's match on the response send_request returned.
FacadeApply ==
    /\ scope = "facade"
    /\ fout = Pending
    /\ fout' = Facade(fin.req, fin.resp)
    /\ UNCHANGED <<scope, fin, onceVars, tpc, worker, loopVars, call, ticket, logVars, envVars>>

\* Every facade method applied to every response variant of its channel.
SpecFacade == InitFacade /\ [][FacadeApply]_vars

\* ------------------------------------------------------ address messages
\* An Ipv4Addr is its four octets; a u32 is its 32 bits, most significant
\* first.
U32Bits == 32
BitIdx == 1..U32Bits
\* u32::from(Ipv4Addr) and Ipv4Addr::from(u32): big-endian.
U32FromAddr(a) == [i \in BitIdx |-> (a[((i - 1) \div 8) + 1] \div 2^(7 - ((i - 1) % 8))) % 2]
AddrFromU32(b) ==
    [k \in 1..4 |->
        LET o == 8 * (k - 1) IN
        128 * b[o + 1] + 64 * b[o + 2] + 32 * b[o + 3] + 16 * b[o + 4]
            + 8 * b[o + 5] + 4 * b[o + 6] + 2 * b[o + 7] + b[o + 8]]
AllOnes == [i \in BitIdx |-> 1]
\* x >> n on a u32: a shift amount of 32 or more overflows (a debug build
\* panics, a release build shifts by n % 32).
ShrOverflows(n) == n >= U32Bits
Shr(x, n) == [i \in BitIdx |-> IF i <= n % U32Bits THEN 0 ELSE x[i - (n % U32Bits)]]
BitOr(x, y) == [i \in BitIdx |-> IF x[i] = 1 \/ y[i] = 1 THEN 1 ELSE 0]
\* Ipv4Addr::is_multicast: 224.0.0.0/4.
is_multicast_v4(a) == a[1] \in 224..239

\* (A builder that shifts for every prefix length.)
FullLengthNever(prefix_len) == FALSE

\* `if prefix.prefix_len() == 32 { addr }`
FullLength(prefix_len) == prefix_len = U32Bits

\* build_ipv4_address_message; overflow tells whether the shift overflowed.
build_ipv4_address_message(prefix, if_id) ==
    LET addr == prefix.addr
        bcast == IF FullLength(prefix.prefix_len) THEN addr
                 ELSE AddrFromU32(BitOr(U32FromAddr(addr), Shr(AllOnes, prefix.prefix_len)))
    IN [family |-> 4, index |-> if_id, prefix_len |-> prefix.prefix_len,
        attributes |-> IF is_multicast_v4(addr) THEN <<>>
                       ELSE <<Attr("Address", addr), Attr("Local", addr),
                              Attr("Broadcast", bcast)>>,
        overflow |-> ~is_multicast_v4(addr) /\ ~FullLength(prefix.prefix_len)
                        /\ ShrOverflows(prefix.prefix_len)]

\* -------------------------------------------------- decoding route messages
\* An absent Option<u32> / Option<Ipv4Addr>.
None == -1

\* table_from_header: a header table byte of 0 is None.
table_from_header(value) == IF value = 0 THEN None ELSE value

\* The loop over message.attributes of decode_ipv4_route / decode_ipv6_route:
\* d holds destination, metric, table and oif so far.  A Destination of the
\* other family falls to the `_ => {}` arm.
RECURSIVE decode_attributes(_, _, _)
decode_attributes(fam, attributes, d) ==
    IF attributes = <<>> THEN d
    ELSE LET attr == Head(attributes)
             e == CASE attr.a = "Destination" /\ attr.v[1] = fam ->
                           [d EXCEPT !.destination = attr.v[2]]
                    [] attr.a = "Priority" -> [d EXCEPT !.metric = attr.v]
                    [] attr.a = "Oif" -> [d EXCEPT !.oif = attr.v]
                    [] attr.a = "Table" -> [d EXCEPT !.table = attr.v]
                    [] OTHER -> d
         IN decode_attributes(fam, Tail(attributes), e)

\* decode_ipv4_route (fam = 4) / decode_ipv6_route (fam = 6): <<>> is None.
\* Ipv4Net::new / Ipv6Net::new reject a prefix length beyond the address.
decode_ip_route(fam, message) ==
    IF message.family # fam THEN <<>>
    ELSE LET d == decode_attributes(fam, message.attributes,
                      [destination |-> None, metric |-> None,
                       table |-> table_from_header(message.table), oif |-> None])
             addr == IF d.destination = None THEN 0 ELSE d.destination
         IN IF message.plen > AddrBits THEN <<>>
            ELSE <<[if_id |-> IF d.oif # None /\ d.oif # 0 THEN d.oif ELSE None,
                    metric |-> d.metric,
                    table |-> d.table,
                    route |-> Net(addr, message.plen)]>>

\* ------------------------------------------------ tunnel attribute lists
IFLA_GRE_LINK == 1
IFLA_GRE_IKEY == 4
IFLA_GRE_OKEY == 5
IFLA_GRE_LOCAL == 6
IFLA_GRE_REMOTE == 7
IFLA_GRE_TTL == 8
IFLA_GRE_TOS == 9
IFLA_GRE_PMTUDISC == 10
IFLA_GRE_ENCAP_LIMIT == 11
IFLA_GRE_IGNORE_DF == 19
DefaultEncapLimit == 255

\* u32::to_le_bytes, u32::to_be_bytes, and to_ne_bytes on a target of the
\* given byte order.
to_le_bytes(x) ==
    <<x % 256, (x \div 256) % 256, (x \div 65536) % 256, (x \div 16777216) % 256>>

\* (A key encoding that keeps the low 16 bits only.)
to_be_bytes_low16(x) == <<0, 0, (x \div 256) % 256, x % 256>>

to_be_bytes(x) ==
    <<(x \div 16777216) % 256, (x \div 65536) % 256, (x \div 256) % 256, x % 256>>

to_ne_bytes(x, endian) == IF endian = "big" THEN to_be_bytes(x) ELSE to_le_bytes(x)

\* DefaultNla::new(kind, value)
DefaultNla(kind, value) == [kind |-> kind, value |-> value]

\* gre_nlas / gre6_nlas: the two differ in the address type of local and
\* remote and in the names of the ttl (hop_limit) and tos (traffic_class)
\* fields.
gre_nlas(cfg, endian) ==
    <<DefaultNla(IFLA_GRE_LOCAL, cfg.local), DefaultNla(IFLA_GRE_REMOTE, cfg.remote)>>
      \o (IF cfg.ttl # None THEN <<DefaultNla(IFLA_GRE_TTL, <<cfg.ttl>>)>> ELSE <<>>)
      \o (IF cfg.tos # None THEN <<DefaultNla(IFLA_GRE_TOS, <<cfg.tos>>)>> ELSE <<>>)
      \o (IF cfg.key # None
          THEN LET bytes == to_be_bytes(cfg.key) IN
               <<DefaultNla(IFLA_GRE_IKEY, bytes), DefaultNla(IFLA_GRE_OKEY, bytes)>>
          ELSE <<>>)
      \o <<DefaultNla(IFLA_GRE_ENCAP_LIMIT,
                      <<IF cfg.encap_limit = None THEN DefaultEncapLimit ELSE cfg.encap_limit>>)>>
      \o <<DefaultNla(IFLA_GRE_PMTUDISC, <<IF cfg.pmtudisc THEN 1 ELSE 0>>)>>
      \o <<DefaultNla(IFLA_GRE_IGNORE_DF, <<IF cfg.ignore_df THEN 1 ELSE 0>>)>>
      \o (IF cfg.link # None
          THEN <<DefaultNla(IFLA_GRE_LINK, to_ne_bytes(cfg.link, endian))>>
          ELSE <<>>)

\* build_info_data for Gre, Gretap, Ip6Gre and Ip6Gretap: the attribute list
\* under the InfoData variant of the kind.
build_gre_info_data(kind, cfg, endian) ==
    [variant |-> CASE kind = "Gre" -> "GreTun"
                   [] kind = "Gretap" -> "GreTap"
                   [] kind = "Ip6Gre" -> "GreTun6"
                   [] OTHER -> "GreTap6",
     nlas |-> gre_nlas(cfg, endian)]

\* ------------------------------------------ the manual attribute encoder
NLA_HEADER_LEN == 4
NLA_ALIGNTO == 4
U16Mod == 65536

\* (No alignment at all.)
align_nla_none(len) == len

\* align_nla: (len + NLA_ALIGNTO - 1) & !(NLA_ALIGNTO - 1), for a power of two.
align_nla(len) == ((len + NLA_ALIGNTO - 1) \div NLA_ALIGNTO) * NLA_ALIGNTO

\* u16::to_ne_bytes of `x as u16` on a target of the given byte order.
u16_to_ne_bytes(x, endian) ==
    LET v == x % U16Mod IN
    IF endian = "big" THEN <<v \div 256, v % 256>> ELSE <<v % 256, v \div 256>>

Zeros(n) == [i \in 1..n |-> 0]

\* encode_default_nlas: for each attribute the buffer grows by the aligned
\* length, zero-filled, and takes the length, the kind and the value.
RECURSIVE encode_default_nlas(_, _)
encode_default_nlas(nlas, endian) ==
    IF nlas = <<>> THEN <<>>
    ELSE LET nla == Head(nlas)
             value_len == Len(nla.value)
             payload_len == value_len + NLA_HEADER_LEN
             aligned_len == align_nla(payload_len)
             target == u16_to_ne_bytes(payload_len, endian)
                         \o u16_to_ne_bytes(nla.kind, endian)
                         \o nla.value
         IN target \o Zeros(aligned_len - payload_len)
              \o encode_default_nlas(Tail(nlas), endian)

\* ------------------------------------------ the pure functions on their own
\* A function of the route and virtual-interface modules and an argument.
In(fn, x) == [fn |-> fn, x |-> x]
WeightInputs ==
    {In("hops_to_weight", h) : h \in 0..U8Max}
        \cup {In("weight_to_hops", w) : w \in (0..MaxWeight) \cup {BigWeight}}

\* The next hops differ in interface and gateway; the weights have inputs of
\* their own (WeightInputs).
NextHopInfos ==
    {[if_id |-> i, gateway |-> g, weight |-> w, flags |-> 0] :
        i \in {-1, 1}, g \in {<<>>, <<4, 1>>, <<6, 1>>}, w \in {2}}
NextHopLists == UNION {[1..n -> NextHopInfos] : n \in 0..MaxHops}
Routes ==
    {[if_id |-> i, gateway |-> g, source |-> e, metric |-> e, table |-> e, nexthops |-> n] :
        i \in {-1, 0, 1}, g \in {<<>>, <<4, 1>>, <<6, 1>>}, e \in BOOLEAN, n \in NextHopLists}

\* Next-hop lists of zero, one and two entries for the multipath encoders:
\* the interface None, Some(0) and Some(1); no gateway, a v4 and a v6 one;
\* the weights 0, 1, 256 and 257; no flag and RTNH_F_ONLINK.
MultipathHops ==
    {[if_id |-> i, gateway |-> g, weight |-> w, flags |-> f] :
        i \in {-1, 0, 1}, g \in {<<>>, <<4, 1>>, <<6, 2>>},
        w \in {0, 1, U8Max + 1, U8Max + 2}, f \in {0, 4}}
MultipathLists ==
    {<<>>} \cup {<<a>> : a \in MultipathHops} \cup {<<a, b>> : a, b \in MultipathHops}
MultipathInputs ==
    {In("build_multipath_v4", l) : l \in MultipathLists}
        \cup {In("build_multipath_v6", l) : l \in MultipathLists}
RouteInputs ==
    {In("build_ipv4_route_message", r) : r \in Routes}
        \cup {In("build_ipv6_route_message", r) : r \in Routes}

\* Ipv4Net values: addresses with host bits clear and set, the extremes and a
\* multicast one, at every prefix length.
Ipv4AddrSample ==
    {<<192, 0, 2, 1>>, <<10, 0, 0, 0>>, <<0, 0, 0, 0>>, <<255, 255, 255, 255>>,
     <<172, 16, 5, 130>>, <<224, 0, 0, 1>>}
AddressInputs ==
    {In("build_ipv4_address_message", Net(a, l)) : a \in Ipv4AddrSample, l \in 0..U32Bits}

\* Route messages of either family: the header's table byte is 0 or main
\* (254); the Destination, Oif and Table attributes are each absent or
\* present, Oif and Table with the value 0 or another one.
MainTable == 254
OptAttr(a, vs) == {<<>>} \cup {<<Attr(a, v)>> : v \in vs}
RouteMessages ==
    {[family |-> f, plen |-> l, table |-> tb, attributes |-> da \o oa \o ta] :
        f \in {4, 6}, l \in 0..(AddrBits + 1), tb \in {0, MainTable},
        da \in {<<>>} \cup {<<Attr("Destination", <<4, a>>)>> : a \in Addrs},
        oa \in OptAttr("Oif", {0, 1}),
        ta \in OptAttr("Table", {0, MainTable})}
DecodeInputs ==
    {In("decode_ipv4_route", m) : m \in RouteMessages}
        \cup {In("decode_ipv6_route", m) : m \in RouteMessages}

\* Tunnel configurations: every optional field unset and set (to 0 and to
\* another value), both flags, v4 and v6 endpoints, on a little- and a
\* big-endian target.
SampleKey == 16909060
SampleLink == 258
V4Octets(n) == <<192, 0, 2, n>>
V6Octets(n) == <<32, 1, 13, 184, 0, 0, 0, 0, 0, 0, 0, 0, 0, 0, 0, n>>
GreConfigs(octets(_)) ==
    {[local |-> octets(1), remote |-> octets(2), ttl |-> ttl, tos |-> tos, key |-> key,
      encap_limit |-> lim, pmtudisc |-> pm, ignore_df |-> df, link |-> link] :
        ttl \in {None, 64}, tos \in {None, 0}, key \in {None, 0, SampleKey},
        lim \in {None, 0, 4}, pm \in BOOLEAN, df \in BOOLEAN, link \in {None, SampleLink}}
TunnelInputs ==
    {In("build_info_data", [kind |-> k, cfg |-> c, endian |-> e]) :
        k \in {"Gre", "Gretap"}, c \in GreConfigs(V4Octets), e \in {"little", "big"}}
      \cup {In("build_info_data", [kind |-> k, cfg |-> c, endian |-> e]) :
        k \in {"Ip6Gre", "Ip6Gretap"}, c \in GreConfigs(V6Octets), e \in {"little", "big"}}

\* Attribute lists of up to MaxNlas attributes: two kinds, values of every
\* length from 0 to 5 with non-zero bytes.
MaxNlas == 2
NlaSample ==
    {DefaultNla(k, v) :
        k \in {IFLA_GRE_LINK, SampleLink},
        v \in {<<>>, <<7>>, <<1, 2>>, <<1, 2, 3>>, <<1, 2, 3, 4>>, <<9, 8, 7, 6, 5>>}}
EncodeInputs ==
    {In("encode_default_nlas", [nlas |-> l, endian |-> e]) :
        l \in UNION {[1..n -> NlaSample] : n \in 0..MaxNlas}, e \in {"little", "big"}}

InitPure ==
    /\ scope = "pure"
    /\ once = "uninit"
    /\ stored = 0
    /\ setups = 0
    /\ tpc = [t \in Threads |-> "start"]
    /\ holder = [t \in Threads |-> 0]
    /\ worker = "none"
    /\ InitLoops
    /\ call = [t \in Threads |-> NoCall]
    /\ ticket = 0
    /\ submitted = [s \in Subsys |-> <<>>]
    /\ answered = [s \in Subsys |-> <<>>]
    /\ \/ fin \in WeightInputs
       \/ fin \in RouteInputs
       \/ fin \in AddressInputs
       \/ fin \in DecodeInputs
       \/ fin \in TunnelInputs
       \/ fin \in EncodeInputs
       \/ fin \in MultipathInputs
    /\ fout = Pending
    /\ ktab = {}
    /\ kres = OkReply
    /\ prev = [t \in Threads |-> NoPrev]

\* The function's value, and for a weight conversion the value converted back.
Out(val, back) == [ok |-> TRUE, val |-> val, back |-> back]
PureUnchanged ==
    UNCHANGED <<scope, fin, onceVars, tpc, worker, loopVars, call, ticket, logVars, envVars>>

WeightApply ==
    /\ scope = "pure"
    /\ fout = Pending
    /\ fin.fn \in {"hops_to_weight", "weight_to_hops"}
    /\ fout' = IF fin.fn = "hops_to_weight"
               THEN Out(hops_to_weight(fin.x), weight_to_hops(hops_to_weight(fin.x)))
               ELSE Out(weight_to_hops(fin.x), hops_to_weight(weight_to_hops(fin.x)))
    /\ PureUnchanged

BuildRouteApply ==
    /\ scope = "pure"
    /\ fout = Pending
    /\ fin.fn \in {"build_ipv4_route_message", "build_ipv6_route_message"}
    /\ fout' = Out(build_ip_route_message(IF fin.fn = "build_ipv4_route_message" THEN 4 ELSE 6,
                                          fin.x), fin.x)
    /\ PureUnchanged

BuildAddressApply ==
    /\ scope = "pure"
    /\ fout = Pending
    /\ fin.fn = "build_ipv4_address_message"
    /\ fout' = Out(build_ipv4_address_message(fin.x, 1), fin.x)
    /\ PureUnchanged

DecodeRouteApply ==
    /\ scope = "pure"
    /\ fout = Pending
    /\ fin.fn \in {"decode_ipv4_route", "decode_ipv6_route"}
    /\ fout' = Out(decode_ip_route(IF fin.fn = "decode_ipv4_route" THEN 4 ELSE 6, fin.x),
                   fin.x)
    /\ PureUnchanged

BuildInfoDataApply ==
    /\ scope = "pure"
    /\ fout = Pending
    /\ fin.fn = "build_info_data"
    /\ fout' = Out(build_gre_info_data(fin.x.kind, fin.x.cfg, fin.x.endian), fin.x)
    /\ PureUnchanged

EncodeApply ==
    /\ scope = "pure"
    /\ fout = Pending
    /\ fin.fn = "encode_default_nlas"
    /\ fout' = Out(encode_default_nlas(fin.x.nlas, fin.x.endian), fin.x)
    /\ PureUnchanged

\* The list a multipath encoder builds, and that list decoded.
MultipathApply ==
    /\ scope = "pure"
    /\ fout = Pending
    /\ fin.fn \in {"build_multipath_v4", "build_multipath_v6"}
    /\ LET built == build_multipath(IF fin.fn = "build_multipath_v4" THEN 4 ELSE 6, fin.x)
       IN fout' = Out(built, convert_multipath(built))
    /\ PureUnchanged

NextPure ==
    \/ MultipathApply
    \/ WeightApply
    \/ BuildRouteApply
    \/ BuildAddressApply
    \/ DecodeRouteApply
    \/ BuildInfoDataApply
    \/ EncodeApply

SpecPure == InitPure /\ [][NextPure]_vars

\* ================================================================ properties
\* The accepted calls of subsystem s that have no response yet.
Processing(s) ==
    {t \in Threads : call[t].req.sub = s /\ call[t].st = "accepted" /\ call[t].resps = <<>>}

IsPrefix(a, b) == Len(a) <= Len(b) /\ \A i \in 1..Len(a) : a[i] = b[i]

\* C1: however the calls of RtnlClient::new() interleave, new_inner has run
\* at most once, and every thread that has returned from new() holds the
\* handle that this one setup stored in CLIENT.
C1_SetupAtMostOnce ==
    /\ setups <= 1
    /\ \A t \in Threads : holder[t] # 0 => (holder[t] = stored /\ stored = 1)

\* Every thread has returned from new() with the handle of the single setup.
C1_Witness == setups = 1 /\ \A t \in Threads : holder[t] = 1

\* C2: a request a loop has accepted and is done with has exactly one
\* response, and no request ever has more than one.
C2_ExactlyOneResponse ==
    \A t \in Threads :
        /\ Len(call[t].resps) <= 1
        /\ (call[t].st = "accepted" /\ \A s \in Subsys : cur[s] # t)
              => Len(call[t].resps) = 1

\* C3: in one subsystem at most one accepted request is without a response,
\* and the responses were sent in the order the requests were submitted.
C3_SerializedInOrder ==
    \A s \in Subsys :
        /\ Cardinality(Processing(s)) <= 1
        /\ IsPrefix(answered[s], submitted[s])

\* Two callers submitted to the same subsystem and both were answered.
C3_Witness == \E s \in Subsys : Len(answered[s]) = 2 /\ Len(submitted[s]) = 2

\* C4: while loop a is suspended on a kernel reply, another loop b can take
\* a request waiting in its channel, and can go on from its own kernel reply.
C4_LoopsDoNotBlockEachOther ==
    \A a, b \in Subsys :
        (a # b /\ worker = "running" /\ lpc[a] \in {"exec", "stream"}) =>
            /\ (lpc[b] = "accept" /\ queue[b] # <<>>) => ENABLED Accept(b)
            /\ lpc[b] \in {"exec", "stream"} => ENABLED KernelReply(b)

\* Loop a is still suspended on the first request while another subsystem has
\* answered the later request of the other caller, after a wire operation.
C4_Witness ==
    \E a \in Subsys : \E t, u \in Threads :
        /\ lpc[a] \in {"exec", "stream"} /\ cur[a] = t
        /\ call[u].req.sub # a
        /\ call[u].id > call[t].id
        /\ call[u].wires # <<>>
        /\ call[u].st = "returned"

\* C5: once the worker has failed to start or has terminated, a caller that
\* is blocked in a facade call without a delivered response eventually
\* returns the channel's I/O error, and a call issued afterwards returns it
\* at once.
C5_NoCallHangs ==
    \A t \in Threads :
        /\ (worker \in {"failed", "panicked"} /\ tpc[t] = "waiting" /\ call[t].resps = <<>>)
              ~> (tpc[t] = "ready" /\ call[t].out = ChannelError)
        /\ [](call[t].st = "refused" => (tpc[t] = "ready" /\ call[t].out = ChannelError))

\* The worker failed to start, a caller that was blocked has returned the
\* error, and the other caller's later call was refused at once.
C5_Witness ==
    /\ worker = "failed"
    /\ \E t, u \in Threads :
          /\ call[t].st = "dropped" /\ call[t].out = ChannelError
          /\ call[u].st = "refused" /\ call[u].out = ChannelError

\* C6: the loops, once running, keep running whatever the kernel replies.
C6_LoopsKeepRunning == [][worker = "running" => worker' = "running"]_vars

\* The facade methods that return io::Result<()>.
IsStatusRequest(req) ==
    \/ req.sub = "link" /\ req.kind \in (LinkIndexKinds \ {"InterfaceGet", "MacAddrGet", "MtuGet"})
    \/ req.sub = "address" /\ req.kind \in {"Ipv4AddrSet", "Ipv6AddrSet", "Ipv4AddrDel", "Ipv6AddrDel"}
    \/ req.sub = "neighbor" /\ req.kind \in {"Add", "Change", "Delete"}
    \/ req.sub = "route" /\ req.kind \in {"Ipv4RouteAdd", "Ipv4RouteReplace", "Ipv4RouteDel",
                                          "Ipv6RouteAdd", "Ipv6RouteReplace", "Ipv6RouteDel"}
    \/ req.sub = "virtual_interface" /\ req.kind \in {"Create", "Configure", "Delete"}

\* C7: a status-returning method maps Success to Ok, NotFound to an error of
\* kind NotFound, Failed to a generic error that carries the operation's
\* name, and NotImplemented to an error of kind Unsupported.
C7_StatusMapping ==
    (fout # Pending /\ IsStatusRequest(fin.req)) =>
        /\ fin.resp.v = "Success" => fout = Ok(<<>>)
        /\ fin.resp.v = "NotFound" => (~fout.ok /\ fout.kind = "NotFound")
        /\ fin.resp.v = "Failed" =>
              (~fout.ok /\ fout.kind = "Other" /\ fout.variant = ""
                  /\ fout.op # "" /\ fout.op = OpName(fin.req))
        /\ fin.resp.v = "NotImplemented" => (~fout.ok /\ fout.kind = "Unsupported")

\* A link status method was handed NotFound and returned the not-found error.
C7_Witness ==
    /\ fout # Pending
    /\ fin.req.sub = "link" /\ IsStatusRequest(fin.req)
    /\ fin.resp.v = "NotFound"
    /\ fout.kind = "NotFound"

\* The variant each facade method treats as success.
SuccessVariant(req) ==
    CASE IsStatusRequest(req) -> "Success"
      [] req.kind \in {"InterfaceGet", "InterfaceGetByName"} -> "Interface"
      [] req.kind = "MacAddrGet" -> "MacAddr"
      [] req.kind = "MtuGet" -> "Mtu"
      [] req.kind = "InterfaceList" -> "InterfaceList"
      [] req.kind = "Ipv4AddrsGet" -> "Ipv4Addrs"
      [] req.kind = "Ipv6AddrsGet" -> "Ipv6Addrs"
      [] req.kind = "List" -> "Neighbors"
      [] req.kind = "Get" -> "Neighbor"
      [] req.kind \in {"Ipv4RouteList", "Ipv6RouteList"} -> req.kind
      [] req.kind \in {"Ipv4RouteGet", "Ipv4RouteGetByPrefix"} -> "Ipv4Route"
      [] req.kind \in {"Ipv6RouteGet", "Ipv6RouteGetByPrefix"} -> "Ipv6Route"
      [] req.kind = "GetIndexByName" -> "Index"

\* C8: a facade call that received a response other than its success variant
\* returned an error, and the error names a variant that is none of
\* NotFound, Failed and NotImplemented.
C8_NonSuccessIsError ==
    \A t \in Threads :
        (call[t].st = "returned" /\ Head(call[t].resps).v # SuccessVariant(call[t].req)) =>
            /\ ~call[t].out.ok
            /\ Head(call[t].resps).v \notin {"Success", "NotFound", "Failed", "NotImplemented"}
                  => call[t].out.variant = Head(call[t].resps).v

\* The value-returning lookups.
IsLookup(req) ==
    \/ req.sub = "link" /\ req.kind \in {"InterfaceGet", "InterfaceGetByName", "MtuGet"}
    \/ req.sub = "neighbor" /\ req.kind = "Get"
    \/ req.sub = "route" /\ req.kind \in {"Ipv4RouteGet", "Ipv4RouteGetByPrefix",
                                          "Ipv6RouteGet", "Ipv6RouteGetByPrefix"}
    \/ req.sub = "virtual_interface" /\ req.kind = "GetIndexByName"

\* C9: a lookup that received NotFound returned an error of kind NotFound.
C9_LookupNotFound ==
    \A t \in Threads :
        (call[t].st = "returned" /\ IsLookup(call[t].req)
            /\ Head(call[t].resps) = NotFound)
          => (~call[t].out.ok /\ call[t].out.kind = "NotFound")

\* C10: an index-based link request with index 0 that the loop has accepted
\* has the response NotFound and no wire operation.
C10_IndexZeroNoWire ==
    \A t \in Threads :
        (call[t].req.sub = "link" /\ call[t].req.kind \in LinkIndexKinds
            /\ call[t].req.if_id = 0 /\ call[t].st \in {"accepted", "returned"})
          => (call[t].resps = <<NotFound>> /\ call[t].wires = <<>>)

\* An MtuGet of index 0 came back to its caller as the not-found error.
C10_Witness ==
    \E t \in Threads :
        /\ call[t].req = Req("link", "MtuGet", 0, "")
        /\ call[t].st = "returned"
        /\ call[t].resps = <<NotFound>>
        /\ call[t].wires = <<>>
        /\ call[t].out.kind = "NotFound"

\* C11: an address set or delete with interface index 0 that the loop has
\* accepted has the response Failed and no wire operation, and the facade
\* call that sent it returns an error.
C11_AddressIndexZeroFailsFast ==
    \A t \in Threads :
        (call[t].req.sub = "address"
            /\ call[t].req.kind \in {"Ipv4AddrSet", "Ipv6AddrSet", "Ipv4AddrDel", "Ipv6AddrDel"}
            /\ call[t].req.if_id = 0 /\ call[t].st \in {"accepted", "returned"})
          => /\ call[t].resps = <<Failed>>
             /\ call[t].wires = <<>>
             /\ call[t].st = "returned" => (~call[t].out.ok /\ call[t].out.kind = "Other")

\* An Ipv6AddrDel on index 0 came back to its caller as an error.
C11_Witness ==
    \E t \in Threads :
        /\ call[t].req = Req("address", "Ipv6AddrDel", 0, "")
        /\ call[t].st = "returned"
        /\ call[t].resps = <<Failed>>
        /\ call[t].wires = <<>>
        /\ ~call[t].out.ok

\* The virtual-interface and neighbor requests that name interface 0 as
\* their target.
TargetsIndexZero(req) ==
    /\ req.if_id = 0
    /\ \/ req.sub = "virtual_interface" /\ req.kind = "Configure"
       \/ req.sub = "virtual_interface" /\ req.kind = "Delete" /\ req.x = "ByIndex"
       \/ req.sub = "neighbor" /\ req.kind \in {"Add", "Change", "Delete"}

\* C12: a virtual-interface Configure or Delete ByIndex, or a neighbor add,
\* change or delete, whose interface index is 0 issues no wire operation and
\* is answered NotFound or Failed.
C12_IndexZeroNeverOnWire ==
    \A t \in Threads :
        (TargetsIndexZero(call[t].req) /\ call[t].st \in {"accepted", "returned"})
          => /\ call[t].wires = <<>>
             /\ call[t].resps \in {<<NotFound>>, <<Failed>>}

\* The caller's current call repeats its previous one, which returned Ok.
RepeatsOkCall(t) ==
    /\ call[t].st = "returned"
    /\ prev[t].req = call[t].req
    /\ prev[t].out.ok

\* C13: a v4 or v6 address set on a non-zero interface to which the kernel
\* answers 'already exists' is answered Success and returns Ok; so the same
\* set issued again right after it returned Ok returns Ok again, unless the
\* kernel fails for an unrelated reason, and leaves the kernel's address
\* table as the first call left it, with the address in it.
C13_AddressSetIdempotent ==
    \A t \in Threads :
        (call[t].st = "returned" /\ call[t].req.kind \in {"Ipv4AddrSet", "Ipv6AddrSet"}
            /\ call[t].req.if_id # 0)
          => /\ kres.t = "err" /\ kres.kind = "AlreadyExists"
                  => (call[t].resps = <<Success>> /\ call[t].out.ok)
             /\ RepeatsOkCall(t)
                  => /\ ktab = prev[t].tbl
                     /\ KernelKey(call[t].req) \in ktab
                     /\ kres \notin KernelFailures
                           => (call[t].resps = <<Success>> /\ call[t].out.ok)

\* The same Ipv6AddrSet returned Ok twice in a row, starting from a table
\* without the address.
C13_Witness ==
    \E t \in Threads :
        /\ RepeatsOkCall(t)
        /\ call[t].req = Req("address", "Ipv6AddrSet", 1, "")
        /\ call[t].id = 2
        /\ kres = [t |-> "err", kind |-> "AlreadyExists"]
        /\ call[t].out.ok
        /\ call[t].wires = <<Wire("add", 1)>>

\* C14: a route add, replace or delete is answered Success when the kernel
\* confirms, NotFound on a kernel 'not found' error, Failed on 'already
\* exists' and on every other kernel or transport error; replace is the add
\* with the replace flag; a non-replace add repeated right after it returned
\* Ok is refused by the kernel and returns an error, a repeated replace
\* returns Ok.
C14_RouteOutcomeMapping ==
    \A t \in Threads :
        (call[t].st = "returned" /\ call[t].req.sub = "route" /\ KernelTracks(call[t].req))
          => /\ call[t].resps =
                   <<CASE kres.t = "ok" -> Success
                       [] kres.kind = "NotFound" -> NotFound
                       [] kres.kind = "AlreadyExists" -> Failed
                       [] OTHER -> Failed>>
             /\ call[t].wires =
                   <<Wire(CASE KernelReplaces(call[t].req) -> "add.replace"
                            [] KernelAdds(call[t].req) -> "add"
                            [] OTHER -> "del", 0)>>
             /\ (RepeatsOkCall(t) /\ kres \notin KernelFailures) =>
                   CASE KernelAdds(call[t].req) ->
                            /\ kres.t = "err" /\ kres.kind = "AlreadyExists"
                            /\ ~call[t].out.ok
                            /\ ktab = prev[t].tbl
                     [] KernelReplaces(call[t].req) -> call[t].out.ok
                     [] OTHER -> ~call[t].out.ok

\* The same Ipv6RouteAdd was issued twice in a row: Ok, then an error because
\* the kernel answered 'already exists'.
C14_Witness ==
    \E t \in Threads :
        /\ RepeatsOkCall(t)
        /\ call[t].req = Req("route", "Ipv6RouteAdd", 0, "")
        /\ kres = [t |-> "err", kind |-> "AlreadyExists"]
        /\ call[t].resps = <<Failed>>
        /\ ~call[t].out.ok

\* C15: decoding maps a wire hop count h in 0..255 to the weight h + 1;
\* encoding maps a weight w to w - 1 saturated into 0..255 (0 and 1 both give
\* 0, every w above 256 gives 255); encode(decode(h)) = h for every h, and
\* decode(encode(w)) = w for every w in 1..256.
C15_WeightRoundTrip ==
    (scope = "pure" /\ fout # Pending) =>
        /\ fin.fn = "hops_to_weight" =>
              (fout.val = fin.x + 1 /\ fout.back = fin.x)
        /\ fin.fn = "weight_to_hops" =>
              /\ fout.val = (CASE fin.x = 0 -> 0
                               [] fin.x \in 1..256 -> fin.x - 1
                               [] OTHER -> 255)
              /\ fin.x \in 1..256 => fout.back = fin.x

\* The weight 256 was encoded to 255 and decoded back to 256.
C15_Witness ==
    /\ scope = "pure"
    /\ fin.fn = "weight_to_hops"
    /\ fin.x = 256
    /\ fout # Pending
    /\ fout.val = 255
    /\ fout.back = 256

\* The names of a message's top-level attributes.
AttrNames(msg) == {msg.attributes[i].a : i \in 1..Len(msg.attributes)}

\* C16: the message built from a route with a non-empty nexthop list carries
\* the multipath attribute and no top-level gateway, via or output-interface
\* attribute.
C16_MultipathSupersedes ==
    (scope = "pure" /\ fout # Pending
        /\ fin.fn \in {"build_ipv4_route_message", "build_ipv6_route_message"}
        /\ fin.x.nexthops # <<>>)
      => /\ "MultiPath" \in AttrNames(fout.val)
         /\ AttrNames(fout.val) \cap {"Gateway", "Via", "Oif"} = {}

\* A route get whose loop has seen at least one reply: kres is the latest
\* reply of this very call.
LookupSeen(t) ==
    /\ scope = "lookup"
    /\ call[t].st \in {"accepted", "returned"}
    /\ \/ call[t].resps # <<>>
       \/ cur["route"] = t /\ nmsg["route"] > 0

\* The prefix a reply reports, and whether the reply is one a get may return:
\* of the requested family, of a valid length, not local or broadcast.
ReplyNet(msg) == Net(IF msg.dst = -1 THEN 0 ELSE msg.dst, msg.plen)
ReplyEligible(req, msg) ==
    /\ msg.t = "msg"
    /\ msg.family = (IF req.kind \in {"Ipv4RouteGet", "Ipv4RouteGetByPrefix"} THEN 4 ELSE 6)
    /\ msg.kind \notin {"Local", "Broadcast"}
    /\ msg.plen <= AddrBits
\* The reply's prefix covers address a: both agree on the leading plen bits.
ReplyCovers(msg, a) ==
    ReplyNet(msg).addr \div 2^(AddrBits - msg.plen) = a \div 2^(AddrBits - msg.plen)
RouteVariant(req) ==
    IF req.kind \in {"Ipv4RouteGet", "Ipv4RouteGetByPrefix"} THEN "Ipv4Route" ELSE "Ipv6Route"

\* C17: a route get by destination A answers with the first reply, in reply
\* order, that is of the requested family, not local or broadcast, and whose
\* prefix contains A: a reply that qualifies ends the lookup with that route,
\* a reply that does not is passed over, and the end of the stream gives
\* NotFound.
C17_GetByDestinationFirstMatch ==
    \A t \in Threads :
        (LookupSeen(t) /\ call[t].req.kind \in {"Ipv4RouteGet", "Ipv6RouteGet"})
          => LET req == call[t].req
                 good == ReplyEligible(req, kres) /\ ReplyCovers(kres, req.dst)
             IN /\ good <=> (call[t].resps # <<>> /\ call[t].resps[1].v = RouteVariant(req))
                /\ good => call[t].resps = <<Resp(RouteVariant(req), <<[route |-> ReplyNet(kres)]>>)>>
                /\ kres.t = "end" <=> call[t].resps = <<NotFound>>
                /\ (kres.t = "msg" /\ ~good) <=> call[t].resps = <<>>
                /\ Len(call[t].wires) = 1
                /\ call[t].wires[1].msg.destination_prefix_length = AddrBits
                /\ (call[t].st = "returned" /\ good)
                      => call[t].out = Ok(<<[route |-> ReplyNet(kres)]>>)
                /\ (call[t].st = "returned" /\ kres.t = "end")
                      => ~call[t].out.ok /\ call[t].out.kind = "NotFound"

\* A get for address 1 was answered with the default route, a looser match.
C17_Witness ==
    \E t \in Threads :
        /\ scope = "lookup"
        /\ call[t].st = "returned"
        /\ call[t].req = RouteGetReq("Ipv6RouteGet", 1, AddrBits)
        /\ call[t].out = Ok(<<[route |-> Net(0, 0)]>>)

\* C18: a route get by prefix P answers only with a reply whose prefix is P
\* itself, address and length, of the requested family and not local or
\* broadcast; its lookup message has no destination attribute when P has
\* length 0; the end of the stream gives NotFound.
C18_GetByPrefixExact ==
    \A t \in Threads :
        (LookupSeen(t) /\ call[t].req.kind \in {"Ipv4RouteGetByPrefix", "Ipv6RouteGetByPrefix"})
          => LET req == call[t].req
                 good == ReplyEligible(req, kres) /\ ReplyNet(kres) = Net(req.dst, req.plen)
             IN /\ good <=> call[t].resps = <<Resp(RouteVariant(req), <<[route |-> Net(req.dst, req.plen)]>>)>>
                /\ kres.t = "end" <=> call[t].resps = <<NotFound>>
                /\ (kres.t = "msg" /\ ~good) <=> call[t].resps = <<>>
                /\ Len(call[t].wires) = 1
                /\ call[t].wires[1].msg.destination_prefix_length = req.plen
                /\ req.plen = 0 => call[t].wires[1].msg.attributes = <<>>
                /\ (call[t].st = "returned" /\ call[t].out.ok)
                      => call[t].out.val = <<[route |-> Net(req.dst, req.plen)]>>
                /\ (call[t].st = "returned" /\ kres.t = "end")
                      => ~call[t].out.ok /\ call[t].out.kind = "NotFound"

\* A get for the default route was answered with it, on a lookup message
\* without a destination.
C18_Witness ==
    \E t \in Threads :
        /\ scope = "lookup"
        /\ call[t].st = "returned"
        /\ call[t].req = RouteGetReq("Ipv4RouteGetByPrefix", 0, 0)
        /\ call[t].wires = <<WireMsg("get", build_route_message(4, -1, 0))>>
        /\ call[t].out = Ok(<<[route |-> Net(0, 0)]>>)

\* The entries of an enumeration that a filter lets through, in order: if_id
\* -1 is no interface filter, dst "" no destination filter.
OnInterface(entries, if_id) ==
    SelectSeq(entries, LAMBDA e : if_id = -1 \/ e.if_id = if_id)
WithDestination(entries, dst) ==
    SelectSeq(entries, LAMBDA e : e.destination = dst)

\* C19: when the neighbour enumeration ends, a get for destination D answers
\* NotFound if no enumerated entry has destination D on the filter's
\* interface and otherwise the first such entry in enumeration order; a list
\* with interface filter F answers exactly the entries on F, in order, an
\* empty list included; the facade hands the entry or the list on as Ok and
\* NotFound as a not-found error.
C19_NeighborGetAndList ==
    [][\A t \in Threads :
        LET req == call[t].req
            entries == acc["neighbor"]
            hits == WithDestination(OnInterface(entries, req.if_id), "D")
        IN /\ (scope = "lookup" /\ cur["neighbor"] = t /\ lpc["neighbor"] = "stream"
                  /\ kres' = EndReply /\ lpc'["neighbor"] = "accept")
                => /\ (req.kind = "Get" /\ hits = <<>>) => call'[t].resps = <<NotFound>>
                   /\ (req.kind = "Get" /\ hits # <<>>)
                        => call'[t].resps = <<Resp("Neighbor", <<hits[1]>>)>>
                   /\ req.kind = "List"
                        => call'[t].resps = <<Resp("Neighbors", OnInterface(entries, req.if_id))>>
           /\ (scope = "lookup" /\ req.sub = "neighbor" /\ call[t].st = "accepted"
                  /\ call'[t].st = "returned")
                => LET resp == call[t].resps[1] IN
                   /\ resp.v \in {"Neighbor", "Neighbors"} => call'[t].out = Ok(resp.data)
                   /\ resp.v = "NotFound"
                        => ~call'[t].out.ok /\ call'[t].out.kind = "NotFound"
      ]_vars

\* A get filtered on interface 1 returned, at the end of the enumeration, an
\* entry for D on that interface.
C19_Witness ==
    \E t \in Threads :
        /\ scope = "lookup"
        /\ call[t].st = "returned"
        /\ call[t].req = Req("neighbor", "Get", 1, "")
        /\ kres = EndReply
        /\ call[t].out = Ok(<<NeighborEntry(1, "D", <<"Reachable">>, <<{"Router"}>>)>>)

\* C20: creating a Vlan whose configuration lacks the base interface or the
\* VLAN id is refused by the validation with its configuration message,
\* answered Failed and returned as an error, with no wire operation issued;
\* with both present the one wire operation is an add whose message has info
\* kind Vlan, exactly one VLAN-id attribute, and the base interface as link.
C20_VlanCreateValidated ==
    \A t \in Threads :
        LET req == call[t].req IN
        (req.sub = "virtual_interface" /\ req.kind = "Create" /\ IsVlan(req.x)
            /\ call[t].st \in {"accepted", "returned"})
          => IF base_ifindex(req.x) = -1 \/ vlan_id(req.x) = -1
             THEN /\ call[t].wires = <<>>
                  /\ call[t].resps = <<Failed>>
                  /\ ~build_create_message(req.x).ok
                  /\ build_create_message(req.x).err
                        \in {"VLAN creation requires a parent interface (--dev)",
                             "VLAN creation requires --vlan-id"}
                  /\ call[t].st = "returned" => ~call[t].out.ok
             ELSE /\ Len(call[t].wires) = 1
                  /\ call[t].wires[1].op = "add"
                  /\ LET msg == call[t].wires[1].msg IN
                     /\ msg.info_kind = "Vlan"
                     /\ msg.info_data.data = "Vlan"
                     /\ Cardinality({i \in DOMAIN msg.info_data.infos :
                                        msg.info_data.infos[i].a = "Id"}) = 1
                     /\ msg.info_data.infos = <<[a |-> "Id", v |-> vlan_id(req.x)]>>
                     /\ msg.link = base_ifindex(req.x)
                     /\ msg.link # -1

\* A Vlan create without an id has returned an error and issued no wire
\* operation.
C20_Witness ==
    \E t \in Threads :
        /\ call[t].req = Req("virtual_interface", "Create", 0, "VlanNoId")
        /\ call[t].st = "returned"
        /\ call[t].wires = <<>>
        /\ ~call[t].out.ok

\* Octet k of address a with its host bits set, for prefix length p: the
\* octet holds Max(0, Min(8, 8k - p)) host bits.
HostBitsIn(k, p) == IF 8 * k - p <= 0 THEN 0 ELSE IF 8 * k - p >= 8 THEN 8 ELSE 8 * k - p
WithHostBitsSet(a, p) ==
    [k \in 1..4 |-> a[k] - (a[k] % 2^HostBitsIn(k, p)) + 2^HostBitsIn(k, p) - 1]

\* C21: for a non-multicast v4 prefix a/p, p in 0..32, the address message
\* carries address, local and broadcast, the broadcast being a with its 32-p
\* host bits set (192.0.2.255 for 192.0.2.1/24, a itself for p = 32), and the
\* shift never overflows.
C21_BroadcastHostBits ==
    (scope = "pure" /\ fout # Pending /\ fin.fn = "build_ipv4_address_message"
        /\ ~is_multicast_v4(fin.x.addr))
      => LET a == fin.x.addr
             p == fin.x.prefix_len
         IN /\ fout.val.attributes
                  = <<Attr("Address", a), Attr("Local", a), Attr("Broadcast", WithHostBitsSet(a, p))>>
            /\ ~fout.val.overflow
            /\ fout.val.prefix_len = p
            /\ p = 32 => fout.val.attributes[3].v = a
            /\ (a = <<192, 0, 2, 1>> /\ p = 24) => fout.val.attributes[3].v = <<192, 0, 2, 255>>

\* The message for 192.0.2.1/24 was built, with broadcast 192.0.2.255.
C21_Witness ==
    /\ scope = "pure"
    /\ fin.fn = "build_ipv4_address_message"
    /\ fin.x = Net(<<192, 0, 2, 1>>, 24)
    /\ fout # Pending
    /\ fout.val.attributes[3] = Attr("Broadcast", <<192, 0, 2, 255>>)

\* C22: a v4 or v6 address delete on a non-zero interface is answered Success
\* when the kernel confirms, NotFound on a kernel error of kind 'not found'
\* or 'address not available', Failed on every other kernel or transport
\* error; the same delete repeated right after it returned Ok returns a
\* not-found error, unless the kernel fails for an unrelated reason.
C22_AddressDeleteMapping ==
    \A t \in Threads :
        (call[t].st = "returned" /\ call[t].req.kind \in {"Ipv4AddrDel", "Ipv6AddrDel"}
            /\ call[t].req.if_id # 0 /\ scope = "kernel")
          => /\ call[t].resps =
                   <<CASE kres.t = "ok" -> Success
                       [] kres.kind \in {"NotFound", "AddrNotAvailable"} -> NotFound
                       [] OTHER -> Failed>>
             /\ call[t].wires = <<Wire("del", call[t].req.if_id)>>
             /\ call[t].out.ok <=> kres.t = "ok"
             /\ (RepeatsOkCall(t) /\ kres \notin KernelFailures)
                   => /\ call[t].resps = <<NotFound>>
                      /\ ~call[t].out.ok
                      /\ call[t].out.kind = "NotFound"
                      /\ KernelKey(call[t].req) \notin ktab

\* The same Ipv4AddrDel was issued twice in a row: Ok, then not found.
C22_Witness ==
    \E t \in Threads :
        /\ scope = "kernel"
        /\ RepeatsOkCall(t)
        /\ call[t].req = Req("address", "Ipv4AddrDel", 1, "")
        /\ kres = [t |-> "err", kind |-> "AddrNotAvailable"]
        /\ call[t].resps = <<NotFound>>
        /\ call[t].out.kind = "NotFound"

\* C23: every link operation that issues a wire call, the reads as well as
\* the sets, answers a kernel 'not found' error with NotFound and every other
\* kernel error and every transport error with Failed.
C23_LinkErrorMapping ==
    \A t \in Threads :
        (scope = "lookup" /\ call[t].req.sub = "link" /\ call[t].wires # <<>>
            /\ call[t].resps # <<>> /\ kres.t = "err")
          => call[t].resps = <<IF kres.kind = "NotFound" THEN NotFound ELSE Failed>>

\* The link loop of caller t's request has just taken one more reply.
LinkReplyTaken(t) ==
    /\ scope = "lookup"
    /\ cur["link"] = t
    /\ lpc["link"] = "stream"
    /\ <<lpc, nmsg, call>>' # <<lpc, nmsg, call>>

DeleteByNameReplyTaken(t) ==
    /\ scope = "lookup"
    /\ cur["virtual_interface"] = t
    /\ call[t].req = Req("virtual_interface", "Delete", 0, "ByName")
    /\ <<lpc, nmsg, call>>' # <<lpc, nmsg, call>>

\* C25: Delete ByName enumerates the links of that name, passes over replies
\* with index 0, and on the first reply with a non-zero index issues one
\* index-based delete for exactly that index; when the replies are over
\* without one it answers NotFound and issues no delete; the delete's outcome
\* is answered Success, NotFound on a kernel 'not found' error, Failed on any
\* other error.
C25_DeleteByName ==
    [][\A t \in Threads :
        LET m == kres'
            resolving == lpc["virtual_interface"] = "stream"
        IN DeleteByNameReplyTaken(t)
             => /\ call[t].wires[1] = Wire("get.match_name", 0)
                /\ Len(call'[t].wires) <= 2
                /\ (resolving /\ m.t = "msg" /\ m.index # 0)
                     => /\ call'[t].wires = <<Wire("get.match_name", 0), Wire("del", m.index)>>
                        /\ call'[t].resps = <<>>
                        /\ lpc'["virtual_interface"] = "exec"
                /\ (resolving /\ m.t = "msg" /\ m.index = 0)
                     => /\ call'[t].wires = call[t].wires
                        /\ call'[t].resps = <<>>
                        /\ lpc'["virtual_interface"] = "stream"
                /\ (resolving /\ m.t # "msg")
                     => /\ call'[t].wires = <<Wire("get.match_name", 0)>>
                        /\ call'[t].resps = <<NotFound>>
                /\ ~resolving
                     => /\ call'[t].wires = call[t].wires
                        /\ call'[t].resps =
                              <<CASE m.t = "ok" -> Success
                                  [] m.kind = "NotFound" -> NotFound
                                  [] OTHER -> Failed>>
      ]_vars

\* A Delete ByName resolved the name to interface 2, after a reply with index
\* 0 or at once, deleted it and returned Ok.
C25_Witness ==
    \E t \in Threads :
        /\ scope = "lookup"
        /\ call[t].req = Req("virtual_interface", "Delete", 0, "ByName")
        /\ call[t].st = "returned"
        /\ call[t].wires = <<Wire("get.match_name", 0), Wire("del", 2)>>
        /\ call[t].out.ok

\* The values of a message's attributes named a.
AttrValues(msg, a) ==
    {msg.attributes[i].v : i \in {j \in 1..Len(msg.attributes) : msg.attributes[j].a = a}}

\* C26: decoding for family F gives nothing for a message of another family;
\* a decoded route has no interface when the message's output interface is 0,
\* no table when the table the message reports, by its table attribute or
\* else by the header's table byte, is 0, and the unspecified address with
\* the header's prefix length when the message has no destination.
C26_DecodeRoute ==
    (scope = "pure" /\ fout # Pending /\ fin.fn \in {"decode_ipv4_route", "decode_ipv6_route"})
      => LET F == IF fin.fn = "decode_ipv4_route" THEN 4 ELSE 6
             m == fin.x
             reported == IF AttrValues(m, "Table") # {}
                         THEN CHOOSE v \in AttrValues(m, "Table") : TRUE
                         ELSE m.table
         IN /\ m.family # F => fout.val = <<>>
            /\ fout.val # <<>>
                 => /\ 0 \in AttrValues(m, "Oif") => fout.val[1].if_id = None
                    /\ reported = 0 => fout.val[1].table = None
                    /\ AttrValues(m, "Destination") = {}
                         => fout.val[1].route = Net(0, m.plen)

\* The neighbour entries a response carries.
NeighborData(resps) ==
    IF resps # <<>> /\ resps[1].v \in {"Neighbor", "Neighbors"} THEN resps[1].data ELSE <<>>

\* C27: a neighbour message without a destination, or with one that is
\* neither v4 nor v6, adds no entry to the enumeration; any other adds one
\* entry whose state is absent exactly when the header state is none and
\* whose flags are absent exactly when the header flag set is empty; and no
\* entry that list or get answers has state Some(none), flags Some(empty) or
\* a destination that is not an IP address.
C27_NeighborNormalised ==
    [][\A t \in Threads :
        (scope = "lookup" /\ cur["neighbor"] = t /\ lpc["neighbor"] = "stream"
            /\ <<lpc, nmsg, call>>' # <<lpc, nmsg, call>>)
          => LET m == kres'
                 entries == acc["neighbor"]
                 data == NeighborData(call'[t].resps)
             IN /\ (m.t = "msg" /\ m.dst \in {"none", "Other"})
                     => acc'["neighbor"] = entries
                /\ (m.t = "msg" /\ m.dst \notin {"none", "Other"})
                     => /\ Len(acc'["neighbor"]) = Len(entries) + 1
                        /\ SubSeq(acc'["neighbor"], 1, Len(entries)) = entries
                        /\ LET e == acc'["neighbor"][Len(entries) + 1] IN
                           /\ e.if_id = m.ifindex /\ e.destination = m.dst
                           /\ e.state = (IF m.state = "None" THEN <<>> ELSE <<m.state>>)
                           /\ e.flags = (IF m.flags = {} THEN <<>> ELSE <<m.flags>>)
                /\ \A i \in 1..Len(data) :
                      /\ data[i].state # <<"None">>
                      /\ data[i].flags # <<{}>>
                      /\ data[i].destination \in {"D", "E"}
                      /\ \E j \in 1..Len(entries) : entries[j] = data[i]
      ]_vars

\* A list returned one entry, decoded from a message with header state none
\* and no flags: the entry has neither state nor flags.
C27_Witness ==
    \E t \in Threads :
        /\ scope = "lookup"
        /\ call[t].st = "returned"
        /\ call[t].req.sub = "neighbor" /\ call[t].req.kind = "List"
        /\ Len(call[t].wires) = 1
        /\ call[t].out = Ok(<<NeighborEntry(1, "D", <<>>, <<>>)>>)

\* The values, in order, of the attributes of one kind in an attribute list.
NlaValues(nlas, kind) ==
    LET hits == SelectSeq(nlas, LAMBDA n : n.kind = kind) IN
    [i \in 1..Len(hits) |-> hits[i].value]
\* The number a four-byte value spells most significant byte first.
BigEndianValue(v) == v[1] * 16777216 + v[2] * 65536 + v[3] * 256 + v[4]

\* C28: the attribute list built for Gre, Gretap, Ip6Gre and Ip6Gretap has
\* the local and the remote address, the encapsulation limit (255 when
\* unset), one pmtudisc byte and one ignore-DF byte, each 0 or 1 as the flag
\* says; it has a TTL, a ToS and a link attribute exactly when the field is
\* set; and when the key is set it has an input key and an output key with
\* the same four bytes, the key most significant byte first.
C28_GreAttributes ==
    (scope = "pure" /\ fout # Pending /\ fin.fn = "build_info_data")
      => LET cfg == fin.x.cfg
             nlas == fout.val.nlas
         IN /\ NlaValues(nlas, IFLA_GRE_LOCAL) = <<cfg.local>>
            /\ NlaValues(nlas, IFLA_GRE_REMOTE) = <<cfg.remote>>
            /\ NlaValues(nlas, IFLA_GRE_ENCAP_LIMIT)
                  = <<(<<IF cfg.encap_limit = None THEN 255 ELSE cfg.encap_limit>>)>>
            /\ NlaValues(nlas, IFLA_GRE_PMTUDISC) = <<(<<IF cfg.pmtudisc THEN 1 ELSE 0>>)>>
            /\ NlaValues(nlas, IFLA_GRE_IGNORE_DF) = <<(<<IF cfg.ignore_df THEN 1 ELSE 0>>)>>
            /\ NlaValues(nlas, IFLA_GRE_TTL)
                  = (IF cfg.ttl = None THEN <<>> ELSE <<(<<cfg.ttl>>)>>)
            /\ NlaValues(nlas, IFLA_GRE_TOS)
                  = (IF cfg.tos = None THEN <<>> ELSE <<(<<cfg.tos>>)>>)
            /\ Len(NlaValues(nlas, IFLA_GRE_LINK)) = (IF cfg.link = None THEN 0 ELSE 1)
            /\ cfg.key # None
                 => /\ Len(NlaValues(nlas, IFLA_GRE_IKEY)) = 1
                    /\ Len(NlaValues(nlas, IFLA_GRE_OKEY)) = 1
                    /\ NlaValues(nlas, IFLA_GRE_IKEY) = NlaValues(nlas, IFLA_GRE_OKEY)
                    /\ Len(NlaValues(nlas, IFLA_GRE_IKEY)[1]) = 4
                    /\ BigEndianValue(NlaValues(nlas, IFLA_GRE_IKEY)[1]) = cfg.key

\* The list was built for an Ip6Gretap with a key whose four bytes differ and
\* with no encapsulation limit, TTL, ToS or link.
C28_Witness ==
    /\ scope = "pure"
    /\ fout # Pending
    /\ fin.fn = "build_info_data"
    /\ fin.x.kind = "Ip6Gretap"
    /\ fin.x.cfg.key = SampleKey
    /\ fin.x.cfg.encap_limit = None /\ fin.x.cfg.ttl = None
    /\ fin.x.cfg.tos = None /\ fin.x.cfg.link = None
    /\ Len(fout.val.nlas) = 7

\* The least multiple of 4 that is at least n.
Align4(n) == CHOOSE m \in n..(n + 3) : m % 4 = 0
\* The length attribute i takes in the buffer, and the offset it starts at.
Slot(nlas, i) == Align4(4 + Len(nlas[i].value))
RECURSIVE Offset(_, _)
Offset(nlas, i) == IF i = 1 THEN 0 ELSE Offset(nlas, i - 1) + Slot(nlas, i - 1)
\* The number two bytes spell in the target's byte order.
U16At(buf, off, endian) ==
    IF endian = "big" THEN buf[off + 1] * 256 + buf[off + 2]
    ELSE buf[off + 2] * 256 + buf[off + 1]

\* C29: the buffer encoded from attributes with values of n_1 .. n_k bytes
\* has length align4(4 + n_1) + .. + align4(4 + n_k), a multiple of 4;
\* attribute i starts at the sum of the aligned lengths before it, with the
\* unpadded length 4 + n_i in two bytes, its kind in the next two, its value
\* from offset 4 on, and zero bytes from the end of the value to the next
\* multiple of 4.
C29_EncodedLayout ==
    (scope = "pure" /\ fout # Pending /\ fin.fn = "encode_default_nlas")
      => LET nlas == fin.x.nlas
             buf == fout.val
             k == Len(nlas)
         IN /\ Len(buf) = (IF k = 0 THEN 0 ELSE Offset(nlas, k) + Slot(nlas, k))
            /\ Len(buf) % 4 = 0
            /\ \A i \in 1..k :
                  LET off == Offset(nlas, i)
                      n == Len(nlas[i].value)
                  IN /\ off % 4 = 0
                     /\ U16At(buf, off, fin.x.endian) = 4 + n
                     /\ U16At(buf, off + 2, fin.x.endian) = nlas[i].kind
                     /\ SubSeq(buf, off + 5, off + 4 + n) = nlas[i].value
                     /\ \A j \in (off + 4 + n + 1)..(off + Slot(nlas, i)) : buf[j] = 0

\* Two attributes were encoded, the first with a one-byte value and three
\* bytes of padding, the second with a five-byte value.
C29_Witness ==
    /\ scope = "pure"
    /\ fout # Pending
    /\ fin.fn = "encode_default_nlas"
    /\ Len(fin.x.nlas) = 2
    /\ Len(fin.x.nlas[1].value) = 1
    /\ Len(fin.x.nlas[2].value) = 5
    /\ Len(fout.val) = 20

\* C30: InterfaceSetAllMulticast on a non-zero index issues one set whose
\* message targets exactly that index, has the all-multicast bit and no other
\* in the change mask, and has the all-multicast bit in the flags exactly
\* when enable is true and no other flag bit.
C30_SetAllMulticast ==
    \A t \in Threads :
        LET req == call[t].req IN
        (req.sub = "link" /\ req.kind = "InterfaceSetAllMulticast" /\ req.if_id # 0
            /\ call[t].st \in {"accepted", "returned"})
          => /\ Len(call[t].wires) = 1
             /\ call[t].wires[1].op = "set"
             /\ call[t].wires[1].msg.index = req.if_id
             /\ call[t].wires[1].msg.change_mask = {"Allmulti"}
             /\ call[t].wires[1].msg.flags \subseteq {"Allmulti"}
             /\ "Allmulti" \in call[t].wires[1].msg.flags <=> req.x = "true"

\* All-multicast mode was disabled on interface 3 and the call returned Ok.
C30_Witness ==
    \E t \in Threads :
        /\ call[t].req = Req("link", "InterfaceSetAllMulticast", MaxIfIndex, "false")
        /\ call[t].st = "returned"
        /\ call[t].wires # <<>>
        /\ call[t].out.ok

\* The wire operations of a list that change kernel state.
MutatingOps == {"add", "add.replace", "set", "del"}
Mutating(wires) == SelectSeq(wires, LAMBDA w : w.op \in MutatingOps)

\* C31: a request issues at most one mutating wire operation, and a second
\* wire operation at all only as the delete that follows the enumeration of
\* a Delete ByName; once its mutating operation is issued no further wire
\* operation follows for that request, and the kernel's answer to it, an
\* error included, is followed at once by the response.
C31_NoRetry ==
    [][\A t \in Threads :
        LET wires == call'[t].wires IN
        /\ Len(Mutating(wires)) <= 1
        /\ Len(wires) <= 2
        /\ Len(wires) = 2
             => /\ call'[t].req = Req("virtual_interface", "Delete", 0, "ByName")
                /\ wires[1] = Wire("get.match_name", 0)
                /\ wires[2].op = "del"
        /\ (Mutating(call[t].wires) # <<>> /\ call'[t].id = call[t].id)
             => call'[t].wires = call[t].wires
        /\ \A s \in Subsys :
              (cur[s] = t /\ lpc[s] = "exec" /\ lpc'[s] # "exec" /\ call'[t].id = call[t].id
                  /\ call'[t] # call[t])
                => Len(call'[t].resps) = 1 /\ lpc'[s] = "accept"
      ]_vars

\* A route add that the kernel refused returned its error after one wire
\* operation.
C31_Witness ==
    \E t \in Threads :
        /\ call[t].req.sub = "route" /\ call[t].req.kind = "Ipv4RouteAdd"
        /\ call[t].st = "returned"
        /\ ~call[t].out.ok
        /\ Len(call[t].wires) = 1
        /\ call[t].wires[1].op = "add"

\* What a loop that starts request req from its accept point and is given
\* the replies one after the other has responded and sent, with nothing else
\* to go by: r is the loop's position, accumulator, responses and wire
\* operations so far.
RECURSIVE FreshFold(_, _, _)
FreshFold(req, replies, r) ==
    IF replies = <<>> \/ r.next = "accept" \/ r.panic THEN r
    ELSE LET st == OnReply(req, r.next, r.acc, Head(replies)) IN
         FreshFold(req, Tail(replies),
                   IF st.panic THEN [r EXCEPT !.panic = TRUE]
                   ELSE [resp |-> r.resp \o st.resp, wire |-> r.wire \o st.wire,
                         next |-> st.next, acc |-> st.acc, panic |-> FALSE])
FreshRun(req, replies) == FreshFold(req, replies, Start(req))

\* The kernel's replies to caller t's current call so far.
RepliesTo(t) == IF kres.id = call[t].id THEN kres.replies ELSE <<>>

\* C32: whatever requests came before it, the responses and wire operations
\* of a get or list request are those of a loop that starts from its accept
\* point with this request and the kernel's replies to it alone, and the
\* caller is returned what the facade makes of that response.
C32_ReadsAreFresh ==
    \A t \in Threads :
        (scope = "reads" /\ IsRead(call[t].req) /\ call[t].st \in {"accepted", "returned"})
          => LET f == FreshRun(call[t].req, RepliesTo(t)) IN
             /\ call[t].resps = f.resp
             /\ call[t].wires = f.wire
             /\ call[t].st = "returned" => call[t].out = Facade(call[t].req, f.resp[1])

\* The caller's second request, a neighbour list, returned an entry after two
\* replies; the same loop had answered the request before it.
C32_Witness ==
    \E t \in Threads :
        /\ scope = "reads"
        /\ call[t].id = 2
        /\ call[t].req = Req("neighbor", "List", -1, "")
        /\ call[t].st = "returned"
        /\ answered["neighbor"] = <<1, 2>>
        /\ Len(RepliesTo(t)) = 2
        /\ call[t].out.ok /\ Len(call[t].out.val) = 1

\* C33: MacAddrGet on a non-zero index passes over the replies without an
\* address attribute, answers the first one that has it with the MAC of its
\* first six bytes, or with the all-zero MAC when the attribute is shorter
\* than six bytes, answers NotFound when the replies are over without one,
\* and leaves the worker and its loops running.
C33_MacAddrGet ==
    [][\A t \in Threads :
        (scope = "lookup" /\ worker = "running" /\ cur["link"] = t
            /\ lpc["link"] = "stream" /\ call[t].req.kind = "MacAddrGet"
            /\ <<lpc, nmsg, call, worker, rx>>' # <<lpc, nmsg, call, worker, rx>>)
          => LET m == kres' IN
             /\ worker' = "running"
             /\ (m.t = "msg" /\ m.addr = "none")
                  => call'[t].resps = <<>> /\ lpc'["link"] = "stream"
             /\ (m.t = "msg" /\ m.addr = "full")
                  => call'[t].resps = <<Resp("MacAddr", <<"first6">>)>>
             /\ (m.t = "msg" /\ m.addr = "short")
                  => call'[t].resps = <<Resp("MacAddr", <<"zero">>)>>
             /\ m.t # "msg" => call'[t].resps = <<NotFound>>
      ]_vars

\* The entries of the link messages with an index and a name, and the
\* addresses of family F of the address messages of family F, in order.
LinkEntries(msgs) ==
    LET kept == SelectSeq(msgs, LAMBDA m : m.index # 0 /\ m.name # "none") IN
    [i \in 1..Len(kept) |-> <<kept[i].index, kept[i].name>>]
AddrEntries(msgs, F) ==
    LET kept == SelectSeq(msgs, LAMBDA m : m.family = F /\ m.addr = F) IN
    [i \in 1..Len(kept) |-> kept[i].addr]

\* C34: InterfaceList and the v4 and v6 address lists are answered with the
\* list of the entries decoded from the replies before the stream ended or
\* yielded an error, never with Failed or NotFound, and the caller gets Ok;
\* a route list and a neighbour list whose stream yields an error are
\* answered Failed.
C34_ListsSwallowErrors ==
    \A t \in Threads :
        (scope = "reads" /\ call[t].st \in {"accepted", "returned"} /\ call[t].resps # <<>>
            /\ kres.id = call[t].id)
          => LET req == call[t].req
                 last == kres.replies[Len(kres.replies)]
                 msgs == SubSeq(kres.replies, 1, Len(kres.replies) - 1)
             IN /\ (req.sub = "link" /\ req.kind = "InterfaceList")
                     => /\ call[t].resps = <<Resp("InterfaceList", LinkEntries(msgs))>>
                        /\ call[t].st = "returned" => call[t].out.ok
                /\ (req.sub = "address" /\ req.kind = "Ipv4AddrsGet")
                     => /\ call[t].resps = <<Resp("Ipv4Addrs", AddrEntries(msgs, 4))>>
                        /\ call[t].st = "returned" => call[t].out.ok
                /\ (req.sub = "address" /\ req.kind = "Ipv6AddrsGet")
                     => /\ call[t].resps = <<Resp("Ipv6Addrs", AddrEntries(msgs, 6))>>
                        /\ call[t].st = "returned" => call[t].out.ok
                /\ (req.kind \in {"Ipv4RouteList", "Ipv6RouteList"} /\ last.t = "err")
                     => call[t].resps = <<Failed>>
                /\ (req.sub = "neighbor" /\ req.kind = "List" /\ last.t = "err")
                     => call[t].resps = <<Failed>>

\* An address list returned Ok with the one address it had decoded when the
\* reply stream yielded an error.
C34_Witness ==
    \E t \in Threads :
        /\ scope = "reads"
        /\ call[t].req = Req("address", "Ipv4AddrsGet", 1, "")
        /\ call[t].st = "returned"
        /\ kres.id = call[t].id
        /\ Len(kres.replies) = 2
        /\ kres.replies[2].t = "err"
        /\ call[t].out.ok
        /\ Len(call[t].out.val) = 1

\* The virtual_interface loop has just taken one more reply of the name
\* resolution of caller t's GetIndexByName or Delete ByName.
ResolutionReplyTaken(t) ==
    /\ scope = "lookup"
    /\ cur["virtual_interface"] = t
    /\ lpc["virtual_interface"] = "stream"
    /\ call[t].req \in {Req("virtual_interface", "GetIndexByName", 0, "n"),
                        Req("virtual_interface", "Delete", 0, "ByName")}
    /\ <<lpc, nmsg, call>>' # <<lpc, nmsg, call>>

\* C35: GetIndexByName is answered Index with a non-zero index or NotFound,
\* never Failed; an error of the reply stream, of whatever kind, ends the
\* name resolution as 'no index': GetIndexByName and Delete ByName answer
\* NotFound, and Delete ByName issues no delete.
C35_ResolutionSwallowsErrors ==
    [][\A t \in Threads :
        /\ (scope = "lookup" /\ call'[t].req.kind = "GetIndexByName"
               /\ call'[t].resps # <<>>)
             => LET resp == call'[t].resps[1] IN
                /\ resp.v \in {"Index", "NotFound"}
                /\ resp.v = "Index" => resp.data[1] # 0
        /\ (ResolutionReplyTaken(t) /\ kres'.t = "err")
             => /\ call'[t].resps = <<NotFound>>
                /\ call'[t].wires = <<Wire("get.match_name", 0)>>
                /\ lpc'["virtual_interface"] = "accept"
      ]_vars

\* A Delete ByName whose name resolution met a transport error returned
\* not-found without a delete.
C35_Witness ==
    \E t \in Threads :
        /\ scope = "lookup"
        /\ call[t].req = Req("virtual_interface", "Delete", 0, "ByName")
        /\ call[t].st = "returned"
        /\ kres = [t |-> "err", kind |-> "Transport"]
        /\ call[t].wires = <<Wire("get.match_name", 0)>>
        /\ ~call[t].out.ok /\ call[t].out.kind = "NotFound"

\* The virtual_interface loop is working on caller t's Delete ByName.
DeletingByName(t) ==
    /\ scope = "race"
    /\ worker = "running"
    /\ cur["virtual_interface"] = t
    /\ lpc["virtual_interface"] \in {"stream", "exec"}
    /\ call[t].req = Req("virtual_interface", "Delete", 0, "ByName")

\* C36: the delete of a Delete ByName is issued with the resolving reply and
\* targets exactly the index of that reply, and stays as issued whatever
\* the other loops do; until the loop has responded, no other request
\* of the virtual_interface loop is taken from its queue; a request waiting
\* for the link loop at its accept point can be taken meanwhile.
C36_DeleteTargetsResolvedIndex ==
    [][\A t \in Threads :
        DeletingByName(t)
          => /\ (lpc["virtual_interface"] = "stream" /\ call'[t].wires # call[t].wires)
                  => /\ kres'.t = "msg" /\ kres'.index # 0
                     /\ call'[t].wires = <<Wire("get.match_name", 0), Wire("del", kres'.index)>>
             /\ lpc["virtual_interface"] = "exec" => call'[t].wires = call[t].wires
             /\ \A u \in Threads \ {t} :
                   (call[u].req.sub = "virtual_interface" /\ call[u].st = "queued")
                     => call'[u].st \in {"queued", "dropped"}
             /\ (lpc["link"] = "accept" /\ queue["link"] # <<>>) => ENABLED Accept("link")
      ]_vars

\* While the delete of interface 2, resolved from the name, awaits the
\* kernel's answer, a rename of interface 1 that the other caller sent after
\* the Delete ByName has been carried out and has returned Ok.
C36_Witness ==
    \E t, u \in Threads :
        /\ DeletingByName(t)
        /\ lpc["virtual_interface"] = "exec"
        /\ call[t].wires = <<Wire("get.match_name", 0), Wire("del", 2)>>
        /\ call[u].req = Req("link", "InterfaceRename", 1, "")
        /\ call[u].id > call[t].id
        /\ call[u].st = "returned"
        /\ call[u].out.ok

\* C37: a route get, by destination or by prefix, is answered Failed exactly
\* when its reply stream yields an error, of whatever kind, a kernel 'not
\* found' included, and NotFound exactly when the stream ends; after a reply
\* that does not match, the lookup is still waiting for the next one.
C37_RouteGetStreamError ==
    \A t \in Threads :
        (LookupSeen(t)
            /\ call[t].req.kind \in {"Ipv4RouteGet", "Ipv6RouteGet", "Ipv4RouteGetByPrefix",
                                     "Ipv6RouteGetByPrefix"})
          => /\ kres.t = "err" <=> call[t].resps = <<Failed>>
             /\ kres.t = "end" <=> call[t].resps = <<NotFound>>
             /\ call[t].resps = <<>>
                  => /\ kres.t = "msg"
                     /\ cur["route"] = t /\ lpc["route"] = "stream"
             /\ (call[t].st = "returned" /\ kres.t = "err")
                  => ~call[t].out.ok /\ call[t].out.kind # "NotFound"

\* A get by prefix whose stream yielded a kernel 'not found' error returned
\* a failure that is not not-found.
C37_Witness ==
    \E t \in Threads :
        /\ scope = "lookup"
        /\ call[t].req = RouteGetReq("Ipv4RouteGetByPrefix", 0, 0)
        /\ call[t].st = "returned"
        /\ kres = [t |-> "err", kind |-> "NotFound"]
        /\ call[t].resps = <<Failed>>
        /\ ~call[t].out.ok

\* The lists the round trip is about: weights in 1..256, the interface None
\* or non-zero.
C38_Encodable(entries) ==
    \A i \in 1..Len(entries) :
        /\ entries[i].weight \in 1..(U8Max + 1)
        /\ entries[i].if_id # 0

\* C38: a list of next hops whose weights are in 1..256 and whose interface
\* is absent or non-zero is given back by convert_multipath from the list
\* that build_multipath_v4 or build_multipath_v6 made of it: same length and
\* order, each hop's interface, gateway, weight and flags; a gateway of the
\* encoder's family travelled as Gateway, one of the other family as Via.
C38_MultipathRoundTrip ==
    (scope = "pure" /\ fout # Pending
        /\ fin.fn \in {"build_multipath_v4", "build_multipath_v6"}
        /\ C38_Encodable(fin.x))
      => /\ fout.back = fin.x
         /\ Len(fout.val) = Len(fin.x)
         /\ \A i \in 1..Len(fin.x) :
                LET fam == IF fin.fn = "build_multipath_v4" THEN 4 ELSE 6
                    g == fin.x[i].gateway
                IN fout.val[i].attributes =
                       IF g = <<>> THEN <<>>
                       ELSE <<Attr(IF g[1] = fam THEN "Gateway" ELSE "Via", g)>>

\* Two different hops through the v4 encoder and back: the first with the
\* weight 256, no interface and a v6 gateway, the second with the weight 1,
\* an interface, a v4 gateway and a flag.
C38_Witness ==
    /\ scope = "pure"
    /\ fout # Pending
    /\ fin.fn = "build_multipath_v4"
    /\ fin.x = <<[if_id |-> -1, gateway |-> <<6, 2>>, weight |-> U8Max + 1, flags |-> 0],
                 [if_id |-> 1, gateway |-> <<4, 1>>, weight |-> 1, flags |-> 4]>>
    /\ fout.val[1].hops = U8Max
    /\ fout.val[1].attributes = <<Attr("Via", <<6, 2>>)>>
    /\ fout.val[2].attributes = <<Attr("Gateway", <<4, 1>>)>>
    /\ fout.back = fin.x

====
